---- MODULE Spec2Model ----
(***************************************************************************)
(* Verification model of the Quanta execution core:                        *)
(*   - WasmMemory (linear memory)            src/unnamed/part_001          *)
(*   - BytecodeVM / BytecodeCompiler / BytecodeJITBridge                    *)
(*                                           src/core/src/Bytecode.cpp     *)
(* Each component has its own specification over the shared variables;     *)
(* the variables of the other components stay at their initial values.     *)
(***************************************************************************)
EXTENDS Integers, Sequences, FiniteSets, TLC

VARIABLES mem, memOp, fn, vm, jitOp, comp, promo, module, modOp, wvm, leb,
          inst

vars == <<mem, memOp, fn, vm, jitOp, comp, promo, module, modOp, wvm, leb, inst>>

(***************************************************************************)
(* Bounds of the model                                                     *)
(***************************************************************************)
MaxPages == 3
MaxDelta == 2
MaxInstr == 3
MaxPc == 2
MaxRegs == 1
MaxHits == 3
NThreads == 3
MaxTail == 6
MaxCode == 3
MaxLeb == 6

(***************************************************************************)
(* WasmMemory                                                              *)
(***************************************************************************)
PAGE_SIZE == 65536

ScriptMaximumPages == 65536

(***************************************************************************)
(* 32-bit unsigned arithmetic.  A uint32_t is held as two digits in base   *)
(* PAGE_SIZE (2^32 = PAGE_SIZE * PAGE_SIZE): hi * PAGE_SIZE + lo.           *)
(***************************************************************************)
U32Of(n) == [hi |-> n \div PAGE_SIZE, lo |-> n % PAGE_SIZE]

\* The carry out of bit 31 of a + b
CarryU32(a, b) == (a.hi + b.hi + ((a.lo + b.lo) \div PAGE_SIZE)) \div PAGE_SIZE

\* a + b in uint32_t (wraps modulo 2^32)
AddU32(a, b) ==
    [hi |-> (a.hi + b.hi + ((a.lo + b.lo) \div PAGE_SIZE)) % PAGE_SIZE,
     lo |-> (a.lo + b.lo) % PAGE_SIZE]

GtU32(a, b) == a.hi > b.hi \/ (a.hi = b.hi /\ a.lo > b.lo)

LeqU32(a, b) == ~GtU32(a, b)

\* size_t initial_bytes = initial_pages * PAGE_SIZE, as three digits in base
\* PAGE_SIZE.  initial_pages is a uint32_t; PAGE_SIZE is declared in
\* WebAssembly.h, so the product is computed either in size_t (64 bit) or in
\* 32-bit unsigned arithmetic (the top digit is lost).
InitialBytes(initial_pages) ==
    {[d2 |-> initial_pages.hi, d1 |-> initial_pages.lo, d0 |-> 0],
     [d2 |-> 0, d1 |-> initial_pages.lo, d0 |-> 0]}

NoBytes == [d2 |-> 0, d1 |-> 0, d0 |-> 0]

NoMemory ==
    [exists |-> FALSE, initial_pages_ |-> U32Of(0), maximum_pages_ |-> U32Of(0),
     byte_length |-> NoBytes]

NoMemOp ==
    [op |-> "none", delta |-> U32Of(0), prev_pages |-> U32Of(0),
     prev_len |-> NoBytes, ret |-> FALSE]

\* WasmMemory::size: buffer_ ? buffer_->byte_length() / PAGE_SIZE : 0
Size(m) ==
    IF m.exists THEN [hi |-> m.byte_length.d2, lo |-> m.byte_length.d1] ELSE U32Of(0)

\* WasmMemory::WasmMemory(initial_pages, maximum_pages)
NewMemory(initial_pages, maximum_pages, bytes) ==
    [exists |-> TRUE, initial_pages_ |-> initial_pages,
     maximum_pages_ |-> maximum_pages, byte_length |-> bytes]

MemConstruct ==
    /\ memOp.op = "none"
    /\ \E i \in 0..MaxPages, m \in 0..MaxPages :
         \E bytes \in InitialBytes(U32Of(i)) :
            /\ mem' = NewMemory(U32Of(i), U32Of(m), bytes)
            /\ memOp' = [NoMemOp EXCEPT !.op = "ctor"]
    /\ UNCHANGED <<fn, vm, jitOp, comp, promo, module, modOp, wvm, leb, inst>>

\* WasmMemory::constructor(ctx, args), with no argument, a value that is
\* not a number, or a number (a page count that fits uint32_t)
MemScriptConstructor ==
    /\ memOp.op = "none"
    /\ \E a \in
           {[kind |-> "none", n |-> 0], [kind |-> "other", n |-> 0]}
             \cup {[kind |-> "number", n |-> n] :
                     n \in (0..MaxPages)
                             \cup {ScriptMaximumPages - 1, ScriptMaximumPages,
                                   ScriptMaximumPages + 1}} :
         IF a.kind = "none"
         THEN /\ mem' = mem
              /\ memOp' = [NoMemOp EXCEPT !.op = "ctor_type_error"]
         ELSE LET initial_pages == IF a.kind = "number" THEN U32Of(a.n) ELSE U32Of(1)
              IN \E bytes \in InitialBytes(initial_pages) :
                   /\ mem' = NewMemory(initial_pages, U32Of(ScriptMaximumPages), bytes)
                   /\ memOp' = [NoMemOp EXCEPT !.op = "script_ctor"]
    /\ UNCHANGED <<fn, vm, jitOp, comp, promo, module, modOp, wvm, leb, inst>>

\* The value WasmMemory::grow returns
GrowResult(m, delta_pages) ==
    LET new_pages == AddU32(Size(m), delta_pages)
    IN IF GtU32(new_pages, m.maximum_pages_) THEN FALSE ELSE TRUE

\* The buffer WasmMemory::grow leaves behind (it never touches buffer_)
GrowBuffer(m, delta_pages) == m.byte_length

\* WasmMemory::grow(delta_pages), with small deltas and deltas close to 2^32
MemGrow ==
    /\ mem.exists
    /\ \E delta_pages \in
           {U32Of(k) : k \in 0..MaxDelta}
             \cup {[hi |-> PAGE_SIZE - 1, lo |-> PAGE_SIZE - k] : k \in 1..MaxDelta} :
         /\ memOp' = [op |-> "grow", delta |-> delta_pages, prev_pages |-> Size(mem),
                      prev_len |-> mem.byte_length, ret |-> GrowResult(mem, delta_pages)]
         /\ mem' = [mem EXCEPT !.byte_length = GrowBuffer(mem, delta_pages)]
    /\ UNCHANGED <<fn, vm, jitOp, comp, promo, module, modOp, wvm, leb, inst>>

(***************************************************************************)
(* Values of the host value model (Value): undefined, numbers, strings.    *)
(* A string is a sequence of one-character strings.                        *)
(***************************************************************************)
Undefined == [t |-> "undefined", n |-> 0, s |-> <<>>]

Num(n) == [t |-> "number", n |-> n, s |-> <<>>]

Str(s) == [t |-> "string", n |-> 0, s |-> s]

is_number(v) == v.t = "number"

to_number(v) == v.n

DigitChars == <<"0", "1", "2", "3", "4", "5", "6", "7", "8", "9">>

RECURSIVE Digits(_)
Digits(n) ==
    IF n < 10 THEN <<DigitChars[n + 1]>>
    ELSE Digits(n \div 10) \o <<DigitChars[(n % 10) + 1]>>

Bool(b) == [t |-> "boolean", n |-> IF b THEN 1 ELSE 0, s |-> <<>>]

\* Value::to_string: a string is itself, a whole non-negative number its
\* decimal digits, a boolean "true" or "false", undefined the word
\* "undefined".
to_string(v) ==
    IF v.t = "string" THEN v.s
    ELSE IF v.t = "number" THEN Digits(v.n)
    ELSE IF v.t = "boolean"
         THEN IF v.n = 1 THEN <<"t", "r", "u", "e">> ELSE <<"f", "a", "l", "s", "e">>
    ELSE <<"u", "n", "d", "e", "f", "i", "n", "e", "d">>

(***************************************************************************)
(* BytecodeFunction and BytecodeOp                                         *)
(***************************************************************************)
Op(instruction, operands) == [instruction |-> instruction, operands |-> operands]

Operand(type, value) == [type |-> type, value |-> value]

\* The constant pool of the functions the VM is run on
PoolConstants == <<Num(3), Num(4), Str(<<"a">>), Str(<<"b">>)>>

\* The instructions a function is made of: LOAD_CONST with every index of
\* the pool and the first one past it, LOAD_CONST without operand, and the
\* opcodes without operand.  "OTHER" is any opcode that has no case in
\* execute_instruction_simple besides HALT.
InstrSet ==
    {Op("LOAD_CONST", <<Operand("CONSTANT", i)>>) : i \in 0..Len(PoolConstants)}
      \cup {Op("LOAD_CONST", <<>>), Op("CALL", <<Operand("IMMEDIATE", 0)>>)}
      \cup {Op(i, <<>>) : i \in {"ADD", "RETURN", "HALT", "NOP", "OTHER"}}

RECURSIVE SeqsUpTo(_, _)
SeqsUpTo(S, n) ==
    IF n = 0 THEN {<<>>}
    ELSE LET shorter == SeqsUpTo(S, n - 1)
         IN shorter \cup {Append(q, x) : q \in shorter, x \in S}

\* BytecodeFunction after construction and emit/add_constant calls
NewFunction(instructions, constants, register_count, parameter_count) ==
    [instructions |-> instructions, constants |-> constants,
     register_count |-> register_count, parameter_count |-> parameter_count,
     hot_spots |-> [pc \in {} |-> 0], is_optimized |-> FALSE, optimization_level |-> 0]

\* hot_spots[pc] as the unordered_map reads it: 0 for a key it does not hold
HotCount(f, pc) == IF pc \in DOMAIN f.hot_spots THEN f.hot_spots[pc] ELSE 0

(***************************************************************************)
(* BytecodeVM                                                              *)
(***************************************************************************)
push(stack, v) == Append(stack, v)

top(stack) == stack[Len(stack)]

pop(stack) == SubSeq(stack, 1, Len(stack) - 1)

\* execute_fast_add(left, right)
execute_fast_add(left, right) ==
    IF is_number(left) /\ is_number(right)
    THEN Num(to_number(left) + to_number(right))
    ELSE Str(to_string(left) \o to_string(right))

\* ExecAdd with the operands of the concatenation taken in the order popped
ExecAdd_Swapped(stack) ==
    LET right == top(stack)
        left == top(pop(stack))
        rest == pop(pop(stack))
    IN IF is_number(left) /\ is_number(right)
       THEN push(rest, Num(to_number(left) + to_number(right)))
       ELSE push(rest, Str(to_string(right) \o to_string(left)))

\* case BytecodeInstruction::ADD, on a stack of at least two values
ExecAdd(stack) ==
    LET right == top(stack)
        left == top(pop(stack))
        rest == pop(pop(stack))
    IN IF is_number(left) /\ is_number(right)
       THEN push(rest, Num(to_number(left) + to_number(right)))
       ELSE push(rest, Str(to_string(left) \o to_string(right)))

\* ExecLoadConst without the bounds test: an index past the pool pushes a
\* default value
ExecLoadConst_Unchecked(op, f, stack) ==
    IF op.operands # <<>>
    THEN LET const_idx == op.operands[1].value
         IN IF const_idx < Len(f.constants)
            THEN push(stack, f.constants[const_idx + 1])
            ELSE push(stack, Undefined)
    ELSE stack

\* case BytecodeInstruction::LOAD_CONST
ExecLoadConst(op, f, stack) ==
    IF op.operands # <<>>
    THEN LET const_idx == op.operands[1].value
         IN IF const_idx < Len(f.constants)
            THEN push(stack, f.constants[const_idx + 1])
            ELSE stack
    ELSE stack

\* execute_instruction_simple that leaves the CALL of an optimized function
\* to its machine code and pushes nothing for it
execute_instruction_simple_ByTier(op, f, stack) ==
    CASE op.instruction = "LOAD_CONST" -> ExecLoadConst(op, f, stack)
      [] op.instruction = "ADD" -> IF Len(stack) >= 2 THEN ExecAdd(stack) ELSE stack
      [] op.instruction = "CALL" ->
           IF f.is_optimized THEN stack ELSE push(stack, Num(42))
      [] OTHER -> stack

\* BytecodeVM::execute_instruction_simple: the operand stack it leaves
execute_instruction_simple(op, f, stack) ==
    CASE op.instruction = "LOAD_CONST" -> ExecLoadConst(op, f, stack)
      [] op.instruction = "ADD" -> IF Len(stack) >= 2 THEN ExecAdd(stack) ELSE stack
      [] op.instruction = "CALL" -> push(stack, Num(42))
      [] OTHER -> stack

\* The hot-spot counters one iteration of execute's loop leaves behind:
\* execute never calls record_execution.
ExecHotSpots(f, pc) == f.hot_spots

\* IsTerminal with the test for HALT left out
IsTerminal_ReturnOnly(op) == op.instruction = "RETURN"

\* The loop of execute stops after this instruction
IsTerminal(op) == op.instruction = "RETURN" \/ op.instruction = "HALT"

\* The stack execute leaves in stack_ when it returns
ExecFinalStack(stack) == IF stack = <<>> THEN stack ELSE pop(stack)

\* The value execute returns
ExecResult(stack) == IF stack = <<>> THEN Undefined ELSE top(stack)

NoOp == Op("none", <<>>)

IdleVM ==
    [phase |-> "idle", pc |-> 0, stack_ |-> <<>>, registers_ |-> <<>>,
     result |-> Undefined, trace |-> <<>>, last_op |-> NoOp, prev_stack |-> <<>>,
     exit_stack |-> <<>>, null_call |-> FALSE]

\* registers_.clear(); registers_.resize(register_count, Value()); then the
\* first parameter_count arguments are copied in
SetupRegisters(f, args) ==
    [i \in 1..f.register_count |->
        IF i <= Len(args) /\ i <= f.parameter_count THEN args[i] ELSE Undefined]

\* BytecodeVM::execute, entry up to the first test of the loop
VmExecuteBegin ==
    /\ vm.phase \in {"idle", "done"}
    /\ \E args \in {<<>>, <<Str(<<"a">>), Num(3)>>}, null \in BOOLEAN :
         IF null
         THEN vm' = [vm EXCEPT !.phase = "done", !.result = Undefined,
                               !.null_call = TRUE, !.last_op = NoOp,
                               !.trace = <<>>, !.prev_stack = vm.stack_,
                               !.exit_stack = vm.stack_]
         ELSE vm' = [phase |-> "loop", pc |-> 0, stack_ |-> <<>>,
                     registers_ |-> SetupRegisters(fn, args), result |-> Undefined,
                     trace |-> <<>>, last_op |-> NoOp, prev_stack |-> <<>>,
                     exit_stack |-> <<>>, null_call |-> FALSE]
    /\ UNCHANGED <<mem, memOp, fn, jitOp, comp, promo, module, modOp, wvm, leb, inst>>

\* One iteration of the loop of BytecodeVM::execute
VmExecuteStep ==
    /\ vm.phase = "loop"
    /\ vm.pc < Len(fn.instructions)
    /\ LET op == fn.instructions[vm.pc + 1]
       IN /\ vm' = [vm EXCEPT
                      !.stack_ = execute_instruction_simple(op, fn, vm.stack_),
                      !.prev_stack = vm.stack_,
                      !.last_op = op,
                      !.trace = Append(vm.trace, vm.pc),
                      !.phase = IF IsTerminal(op) THEN "break" ELSE "loop",
                      !.pc = IF IsTerminal(op) THEN vm.pc ELSE vm.pc + 1]
          /\ fn' = [fn EXCEPT !.hot_spots = ExecHotSpots(fn, vm.pc)]
    /\ UNCHANGED <<mem, memOp, jitOp, comp, promo, module, modOp, wvm, leb, inst>>

\* BytecodeVM::execute, after the loop: return stack_.empty() ? Value() : pop()
VmExecuteReturn ==
    /\ \/ vm.phase = "break"
       \/ vm.phase = "loop" /\ vm.pc >= Len(fn.instructions)
    /\ vm' = [vm EXCEPT !.phase = "done",
                        !.result = ExecResult(vm.stack_),
                        !.exit_stack = vm.stack_,
                        !.stack_ = ExecFinalStack(vm.stack_)]
    /\ UNCHANGED <<mem, memOp, fn, jitOp, comp, promo, module, modOp, wvm, leb, inst>>

\* The loop of execute and its return as one function of the instructions,
\* the constants, the program counter and the operand stack: what execute
\* returns when its loop is at pc with stack
RECURSIVE RunFrom(_, _, _, _)
RunFrom(instructions, constants, pc, stack) ==
    IF pc >= Len(instructions) THEN ExecResult(stack)
    ELSE LET op == instructions[pc + 1]
             after == execute_instruction_simple(
                          op, NewFunction(instructions, constants, 0, 0), stack)
         IN IF IsTerminal(op) THEN ExecResult(after)
            ELSE RunFrom(instructions, constants, pc + 1, after)

\* The instructions of the functions that are run and promoted in turn: a
\* number and a string of the pool, and every opcode with a case of its own
RunInstrSet ==
    {Op("LOAD_CONST", <<Operand("CONSTANT", i)>>) : i \in {0, 2}}
      \cup {Op("CALL", <<Operand("IMMEDIATE", 0)>>)}
      \cup {Op(i, <<>>) : i \in {"ADD", "RETURN", "HALT", "NOP"}}

(***************************************************************************)
(* BytecodeCompiler::optimize_bytecode, BytecodeVM::record_execution and   *)
(* BytecodeJITBridge                                                       *)
(***************************************************************************)
HOT_SPOT_THRESHOLD == 2

\* RemoveNops that drops the first NOP only
RECURSIVE RemoveNops_FirstOnly(_)
RemoveNops_FirstOnly(instructions) ==
    IF instructions = <<>> THEN <<>>
    ELSE IF Head(instructions).instruction = "NOP"
         THEN Tail(instructions)
         ELSE <<Head(instructions)>> \o RemoveNops_FirstOnly(Tail(instructions))

RECURSIVE RemoveNops(_)
\* std::remove_if(... == NOP) followed by erase
RemoveNops(instructions) ==
    IF instructions = <<>> THEN <<>>
    ELSE IF Head(instructions).instruction = "NOP"
         THEN RemoveNops(Tail(instructions))
         ELSE <<Head(instructions)>> \o RemoveNops(Tail(instructions))

\* BytecodeCompiler::optimize_bytecode(function, level), function not null
optimize_bytecode(f, level) ==
    IF level = 0 THEN f
    ELSE [f EXCEPT !.instructions = RemoveNops(f.instructions),
                   !.is_optimized = TRUE,
                   !.optimization_level = level]

\* BytecodeVM::record_execution(function, pc), function not null:
\* function->hot_spots[pc]++
record_execution(f, pc) ==
    [f EXCEPT !.hot_spots =
        [a \in (DOMAIN f.hot_spots) \cup {pc} |->
            IF a = pc THEN HotCount(f, pc) + 1 ELSE f.hot_spots[a]]]

\* should_jit_compile with > in place of >= on the threshold
should_jit_compile_Strict(f) ==
    LET total_hot_spots ==
          Cardinality({a \in DOMAIN f.hot_spots : f.hot_spots[a] > HOT_SPOT_THRESHOLD})
    IN total_hot_spots >= 3

\* BytecodeJITBridge::should_jit_compile(function), function not null
should_jit_compile(f) ==
    LET total_hot_spots ==
          Cardinality({a \in DOMAIN f.hot_spots : f.hot_spots[a] >= HOT_SPOT_THRESHOLD})
    IN total_hot_spots >= 3

\* compile_to_machine_code with the rejection decided by the tier
compile_to_machine_code_ByTier(f) ==
    IF f.optimization_level = 3
    THEN [ret |-> FALSE, f |-> f]
    ELSE [ret |-> TRUE,
          f |-> [f EXCEPT !.is_optimized = TRUE, !.optimization_level = 3]]

\* BytecodeJITBridge::compile_to_machine_code(function), function not null:
\* the value returned and the function left behind
compile_to_machine_code(f) ==
    IF f.is_optimized
    THEN [ret |-> FALSE, f |-> f]
    ELSE [ret |-> TRUE,
          f |-> [f EXCEPT !.is_optimized = TRUE, !.optimization_level = 3]]

\* The functions the tiering operations are run on
JitPrograms ==
    {<<Op("NOP", <<>>), Op("RETURN", <<>>)>>,
     <<Op("LOAD_CONST", <<Operand("CONSTANT", 0)>>), Op("NOP", <<>>),
       Op("CALL", <<Operand("IMMEDIATE", 0)>>), Op("ADD", <<>>), Op("RETURN", <<>>)>>}

\* The last tiering operation: its name, whether it was given a null
\* function, what it returned, the function before it, and whether a
\* promotion had succeeded before it.
JitOp(op, null, ret, before, promoted) ==
    [op |-> op, null |-> null, ret |-> ret, before |-> before, promoted |-> promoted]

NoJitOp == JitOp("none", FALSE, FALSE, NewFunction(<<>>, <<>>, 0, 0), FALSE)

\* A promotion has succeeded, the last operation included
Promoted == jitOp.promoted \/ (jitOp.op = "compile_to_machine_code" /\ jitOp.ret)

JitRecordExecution ==
    /\ \E pc \in 0..MaxPc, null \in BOOLEAN :
         /\ HotCount(fn, pc) < MaxHits
         /\ fn' = IF null THEN fn ELSE record_execution(fn, pc)
         /\ jitOp' = JitOp("record_execution", null, FALSE, fn, Promoted)
    /\ UNCHANGED <<mem, memOp, vm, comp, promo, module, modOp, wvm, leb, inst>>

JitShouldCompile ==
    /\ \E null \in BOOLEAN :
         jitOp' = JitOp("should_jit_compile", null,
                        IF null THEN FALSE ELSE should_jit_compile(fn),
                        fn, Promoted)
    /\ UNCHANGED <<mem, memOp, vm, fn, comp, promo, module, modOp, wvm, leb, inst>>

JitCompileToMachineCode ==
    /\ \E null \in BOOLEAN :
         LET r == compile_to_machine_code(fn)
         IN /\ fn' = IF null THEN fn ELSE r.f
            /\ jitOp' = JitOp("compile_to_machine_code", null,
                              IF null THEN FALSE ELSE r.ret, fn, Promoted)
    /\ UNCHANGED <<mem, memOp, vm, comp, promo, module, modOp, wvm, leb, inst>>

JitOptimizeBytecode ==
    /\ \E level \in 0..2, null \in BOOLEAN :
         /\ fn' = IF null THEN fn ELSE optimize_bytecode(fn, level)
         /\ jitOp' = JitOp("optimize_bytecode", null, FALSE, fn, Promoted)
    /\ UNCHANGED <<mem, memOp, vm, comp, promo, module, modOp, wvm, leb, inst>>

(***************************************************************************)
(* BytecodeCompiler                                                        *)
(***************************************************************************)
AstNode(type, value) == [type |-> type, value |-> value]

NullNode == AstNode("null", Undefined)

\* The nodes compile is given: no node, one node of every kind
\* compile_node_simple has a case for (a literal carries the value its
\* evaluate returns), and nodes of two of the kinds it has no case for.
AstNodes ==
    {NullNode, AstNode("BINARY_EXPRESSION", Undefined),
     AstNode("CALL_EXPRESSION", Undefined),
     AstNode("IDENTIFIER", Undefined), AstNode("BLOCK_STATEMENT", Undefined),
     AstNode("NUMBER_LITERAL", Num(3)), AstNode("NUMBER_LITERAL", Num(4)),
     AstNode("STRING_LITERAL", Str(<<"a">>)),
     AstNode("BOOLEAN_LITERAL", Bool(TRUE)), AstNode("BOOLEAN_LITERAL", Bool(FALSE))}

\* BytecodeFunction::emit: the instruction is appended
emit(f, instruction, operands) ==
    [f EXCEPT !.instructions = Append(f.instructions, Op(instruction, operands))]

\* BytecodeFunction::add_constant: the value is appended to the pool; the
\* function left behind and the index returned
add_constant(f, value) ==
    [f |-> [f EXCEPT !.constants = Append(f.constants, value)],
     idx |-> Len(f.constants)]

\* emit(LOAD_CONST, {BytecodeOperand(CONSTANT, add_constant(value))})
EmitLoadConstant(f, value) ==
    LET r == add_constant(f, value)
    IN emit(r.f, "LOAD_CONST", <<Operand("CONSTANT", r.idx)>>)

\* compile_node_simple with the literal's operand one past the index
\* add_constant returned
compile_node_simple_IndexPastPool(node, f) ==
    CASE node.type = "BINARY_EXPRESSION" ->
           emit(EmitLoadConstant(EmitLoadConstant(f, Num(1)), Num(2)), "ADD", <<>>)
      [] node.type \in {"NUMBER_LITERAL", "STRING_LITERAL", "BOOLEAN_LITERAL"} ->
           LET r == add_constant(f, node.value)
           IN emit(r.f, "LOAD_CONST", <<Operand("CONSTANT", r.idx + 1)>>)
      [] node.type = "CALL_EXPRESSION" ->
           emit(EmitLoadConstant(f, Str(<<"f", "u", "n", "c", "t", "i", "o", "n">>)),
                "CALL", <<Operand("IMMEDIATE", 0)>>)
      [] OTHER -> emit(f, "NOP", <<>>)

\* compile_node_simple with a placeholder call emitted for the node kinds
\* that have no case
compile_node_simple_CallForUnknown(node, f) ==
    CASE node.type = "BINARY_EXPRESSION" ->
           emit(EmitLoadConstant(EmitLoadConstant(f, Num(1)), Num(2)), "ADD", <<>>)
      [] node.type \in {"NUMBER_LITERAL", "STRING_LITERAL", "BOOLEAN_LITERAL"} ->
           EmitLoadConstant(f, node.value)
      [] node.type = "CALL_EXPRESSION" ->
           emit(EmitLoadConstant(f, Str(<<"f", "u", "n", "c", "t", "i", "o", "n">>)),
                "CALL", <<Operand("IMMEDIATE", 0)>>)
      [] OTHER -> emit(f, "CALL", <<Operand("IMMEDIATE", 0)>>)

\* BytecodeCompiler::compile_node_simple(node, function), node not null
compile_node_simple(node, f) ==
    CASE node.type = "BINARY_EXPRESSION" ->
           emit(EmitLoadConstant(EmitLoadConstant(f, Num(1)), Num(2)), "ADD", <<>>)
      [] node.type \in {"NUMBER_LITERAL", "STRING_LITERAL", "BOOLEAN_LITERAL"} ->
           EmitLoadConstant(f, node.value)
      [] node.type = "CALL_EXPRESSION" ->
           emit(EmitLoadConstant(f, Str(<<"f", "u", "n", "c", "t", "i", "o", "n">>)),
                "CALL", <<Operand("IMMEDIATE", 0)>>)
      [] OTHER -> emit(f, "NOP", <<>>)

\* compile with the terminating RETURN appended before the optimization
\* only when the sequence is empty
AppendReturn_OnlyIfEmpty(f) ==
    IF f.instructions = <<>> THEN emit(f, "RETURN", <<>>) ELSE f

\* compile: "Add return instruction if not present"
AppendReturn(f) ==
    IF f.instructions = <<>>
         \/ f.instructions[Len(f.instructions)].instruction # "RETURN"
    THEN emit(f, "RETURN", <<>>)
    ELSE f

\* BytecodeCompiler::compile(ast, function_name), ast not null: the function
\* returned.  reset_registers() has set next_register_ to 0 and nothing in
\* compile_node_simple allocates a register.
compile(node, optimization_enabled) ==
    LET next_register == 0
        generated == AppendReturn(compile_node_simple(node, NewFunction(<<>>, <<>>, 0, 0)))
        optimized == IF optimization_enabled THEN optimize_bytecode(generated, 2)
                     ELSE generated
    IN [optimized EXCEPT !.register_count = next_register]

\* The compiler and its last call: the node given and whether nullptr was
\* returned
NewCompiler(optimization_enabled) ==
    [optimization_enabled_ |-> optimization_enabled, next_register_ |-> 0,
     op |-> "none", node |-> NullNode, null |-> FALSE]

\* BytecodeCompiler::compile(ast, function_name)
CompCompile ==
    /\ comp.op = "none"
    /\ \E node \in AstNodes :
         /\ comp' = [comp EXCEPT !.op = "compile", !.node = node,
                                 !.next_register_ = 0,
                                 !.null = (node = NullNode)]
         /\ fn' = IF node = NullNode THEN fn
                  ELSE compile(node, comp.optimization_enabled_)
         \* no tiering operation has been applied to a new function
         /\ jitOp' = IF node = NullNode THEN jitOp ELSE NoJitOp
    /\ UNCHANGED <<mem, memOp, vm, promo, module, modOp, wvm, leb, inst>>

\* A function compile has returned
Compiled == comp.op = "compile" /\ ~comp.null

CompExecuteBegin == Compiled /\ VmExecuteBegin

CompExecuteStep == Compiled /\ VmExecuteStep

CompExecuteReturn == Compiled /\ VmExecuteReturn

CompPromote == Compiled /\ JitCompileToMachineCode

\* BytecodeCompiler::dead_code_elimination_pass(function)
dead_code_elimination_pass(f) ==
    [f EXCEPT !.instructions = RemoveNops(f.instructions)]

OptDeadCodeElimination ==
    /\ fn' = dead_code_elimination_pass(fn)
    /\ jitOp' = JitOp("dead_code_elimination_pass", FALSE, FALSE, fn, Promoted)
    /\ UNCHANGED <<mem, memOp, vm, comp, promo, module, modOp, wvm, leb, inst>>

(***************************************************************************)
(* compile_to_machine_code called by several threads on one function.      *)
(* The function takes no lock and is_optimized is a plain bool, so the     *)
(* test of line 307 and the writes of lines 311-312 of one call interleave *)
(* with those of the other calls.                                          *)
(***************************************************************************)
Threads == 1..NThreads

IdleThreads == [t \in Threads |-> [pc |-> "idle", ret |-> FALSE]]

\* if (!function || function->is_optimized) return false;
PromoCheck(t) ==
    /\ promo[t].pc = "idle"
    /\ promo' = [promo EXCEPT ![t] =
                   IF fn.is_optimized THEN [pc |-> "done", ret |-> FALSE]
                   ELSE [pc |-> "checked", ret |-> FALSE]]
    /\ UNCHANGED <<mem, memOp, fn, vm, jitOp, comp, module, modOp, wvm, leb, inst>>

\* function->is_optimized = true; function->optimization_level = 3;
\* return true;
PromoUpdate(t) ==
    /\ promo[t].pc = "checked"
    /\ fn' = [fn EXCEPT !.is_optimized = TRUE, !.optimization_level = 3]
    /\ promo' = [promo EXCEPT ![t] = [pc |-> "done", ret |-> TRUE]]
    /\ UNCHANGED <<mem, memOp, vm, jitOp, comp, module, modOp, wvm, leb, inst>>

(***************************************************************************)
(* WasmModule                                                              *)
(***************************************************************************)
\* The bytes at offset ptr of the input are binary_data_[ptr + 1]; end is
\* Len(binary_data_).
NewModule(binary_data) ==
    [binary_data_ |-> binary_data, sections_ |-> <<>>, is_compiled_ |-> FALSE]

\* a | b on the 16-bit digits of a uint32_t
RECURSIVE OrBits(_, _)
OrBits(a, b) ==
    IF a = 0 THEN b
    ELSE IF b = 0 THEN a
    ELSE (IF a % 2 = 1 \/ b % 2 = 1 THEN 1 ELSE 0) + 2 * OrBits(a \div 2, b \div 2)

OrU32(a, b) == [hi |-> OrBits(a.hi, b.hi), lo |-> OrBits(a.lo, b.lo)]

\* v << shift in 32 bits, for a 7-bit v and shift < 32: the bits shifted
\* past bit 31 are lost
ShlU32(v, shift) ==
    IF shift < 16
    THEN [hi |-> (v * 2^shift) \div PAGE_SIZE, lo |-> (v * 2^shift) % PAGE_SIZE]
    ELSE [hi |-> (v * 2^(shift - 16)) % PAGE_SIZE, lo |-> 0]

\* The loop without the test of the shift against 32
RECURSIVE Leb128Loop_NoShiftLimit(_, _, _, _)
Leb128Loop_NoShiftLimit(data, ptr, result, shift) ==
    IF ptr >= Len(data) THEN [result |-> result, ptr |-> ptr]
    ELSE LET byte == data[ptr + 1]
             r == OrU32(result, ShlU32(byte % 128, shift))
         IN IF byte \div 128 = 0 THEN [result |-> r, ptr |-> ptr + 1]
            ELSE Leb128Loop_NoShiftLimit(data, ptr + 1, r, shift + 7)

\* WasmModule::read_leb128_u32(ptr, end): the loop, from ptr with the
\* result and the shift so far; yields the value and the new ptr
RECURSIVE Leb128Loop(_, _, _, _)
Leb128Loop(data, ptr, result, shift) ==
    IF ptr >= Len(data) THEN [result |-> result, ptr |-> ptr]
    ELSE LET byte == data[ptr + 1]
             r == OrU32(result, ShlU32(byte % 128, shift))
         IN IF byte \div 128 = 0 THEN [result |-> r, ptr |-> ptr + 1]
            ELSE IF shift + 7 >= 32 THEN [result |-> r, ptr |-> ptr + 1]
            ELSE Leb128Loop(data, ptr + 1, r, shift + 7)

read_leb128_u32(data, ptr) == Leb128Loop(data, ptr, U32Of(0), 0)

\* ptr + section.size > end.  Pointers are 64 bits wide on the x86-64
\* target of the engine, so the sum of a pointer into the input and a
\* uint32_t does not wrap and the test is size > end - ptr.
PastEnd(data, ptr, size) == GtU32(size, U32Of(Len(data) - ptr))

NoSection == [id |-> 0, size |-> U32Of(0), data |-> <<>>]

\* parse_section without the test of the size against the end of the
\* input; the copy stops at the end of the input
parse_section_NoSizeCheck(data, ptr) ==
    IF ptr >= Len(data)
    THEN [ok |-> FALSE, section |-> NoSection, ptr |-> ptr,
          size |-> U32Of(0), remaining |-> 0]
    ELSE LET id == data[ptr + 1]
             r == read_leb128_u32(data, ptr + 1)
             remaining == Len(data) - r.ptr
             last == IF PastEnd(data, r.ptr, r.result) THEN Len(data)
                     ELSE r.ptr + r.result.lo
         IN [ok |-> TRUE,
             section |-> [id |-> id, size |-> r.result,
                          data |-> SubSeq(data, r.ptr + 1, last)],
             ptr |-> last, size |-> r.result, remaining |-> remaining]

\* parse_section with the payload copied from one byte before the end of
\* the size field
parse_section_PayloadShifted(data, ptr) ==
    IF ptr >= Len(data)
    THEN [ok |-> FALSE, section |-> NoSection, ptr |-> ptr,
          size |-> U32Of(0), remaining |-> 0]
    ELSE LET id == data[ptr + 1]
             r == read_leb128_u32(data, ptr + 1)
             remaining == Len(data) - r.ptr
         IN IF PastEnd(data, r.ptr, r.result)
            THEN [ok |-> FALSE, section |-> NoSection, ptr |-> r.ptr,
                  size |-> r.result, remaining |-> remaining]
            ELSE [ok |-> TRUE,
                  section |-> [id |-> id, size |-> r.result,
                               data |-> SubSeq(data, r.ptr, r.ptr + r.result.lo - 1)],
                  ptr |-> r.ptr + r.result.lo,
                  size |-> r.result, remaining |-> remaining]

\* WasmModule::parse_section(section, ptr, end): whether it succeeded, the
\* section, the new ptr, and the size read with the number of bytes that
\* were left after the size field
parse_section(data, ptr) ==
    IF ptr >= Len(data)
    THEN [ok |-> FALSE, section |-> NoSection, ptr |-> ptr,
          size |-> U32Of(0), remaining |-> 0]
    ELSE LET id == data[ptr + 1]
             r == read_leb128_u32(data, ptr + 1)
             remaining == Len(data) - r.ptr
         IN IF PastEnd(data, r.ptr, r.result)
            THEN [ok |-> FALSE, section |-> NoSection, ptr |-> r.ptr,
                  size |-> r.result, remaining |-> remaining]
            ELSE [ok |-> TRUE,
                  section |-> [id |-> id, size |-> r.result,
                               data |-> SubSeq(data, r.ptr + 1, r.ptr + r.result.lo)],
                  ptr |-> r.ptr + r.result.lo,
                  size |-> r.result, remaining |-> remaining]

\* WasmModule::validate_module
validate_module == TRUE

\* WasmModule::parse_sections, the loop: from ptr, with the sections pushed
\* and the sizes read so far
RECURSIVE SectionsLoop(_, _, _, _)
SectionsLoop(data, ptr, sections, trace) ==
    IF ptr >= Len(data)
    THEN [ret |-> validate_module, sections_ |-> sections, trace |-> trace]
    ELSE LET r == parse_section(data, ptr)
             t == Append(trace, [size |-> r.size, remaining |-> r.remaining])
         IN IF ~r.ok THEN [ret |-> FALSE, sections_ |-> sections, trace |-> t]
            ELSE SectionsLoop(data, r.ptr, Append(sections, r.section), t)

\* WasmModule::parse_sections: sections_.clear(), then the loop from the
\* byte after the header
parse_sections(m) == SectionsLoop(m.binary_data_, 8, <<>>, <<>>)

\* parse_header that tests the magic number only
parse_header_MagicOnly(data) ==
    data[1] = 0 /\ data[2] = 97 /\ data[3] = 115 /\ data[4] = 109

\* WasmModule::parse_header
parse_header(data) ==
    /\ ~(data[1] # 0 \/ data[2] # 97 \/ data[3] # 115 \/ data[4] # 109)
    /\ ~(data[5] # 1 \/ data[6] # 0 \/ data[7] # 0 \/ data[8] # 0)

\* WasmModule::parse_binary
parse_binary(m) ==
    IF Len(m.binary_data_) < 8
    THEN [ret |-> FALSE, sections_ |-> m.sections_, trace |-> <<>>]
    ELSE IF ~parse_header(m.binary_data_)
    THEN [ret |-> FALSE, sections_ |-> m.sections_, trace |-> <<>>]
    ELSE parse_sections(m)

\* compile that decodes again when the module is already compiled
compile_module_NoEarlyReturn(m) ==
    LET r == parse_binary(m)
    IN [ret |-> r.ret, parsed |-> TRUE, trace |-> r.trace,
        m |-> [m EXCEPT !.sections_ = r.sections_,
                        !.is_compiled_ = IF r.ret THEN TRUE ELSE m.is_compiled_]]

\* WasmModule::compile: what it returns, whether it called parse_binary,
\* the sizes parse_sections read, and the module after it
compile_module(m) ==
    IF m.is_compiled_
    THEN [ret |-> TRUE, parsed |-> FALSE, trace |-> <<>>, m |-> m]
    ELSE LET r == parse_binary(m)
         IN [ret |-> r.ret, parsed |-> TRUE, trace |-> r.trace,
             m |-> [m EXCEPT !.sections_ = r.sections_,
                             !.is_compiled_ = IF r.ret THEN TRUE ELSE m.is_compiled_]]

\* The last operation on the module: its name, what it returned, whether it
\* decoded the input, the sizes it read, and the module before it
NoModOp ==
    [op |-> "none", ret |-> FALSE, parsed |-> FALSE, trace |-> <<>>,
     before |-> NewModule(<<>>)]

ModCompile ==
    /\ LET r == compile_module(module)
       IN /\ module' = r.m
          /\ modOp' = [op |-> "compile", ret |-> r.ret, parsed |-> r.parsed,
                       trace |-> r.trace, before |-> module]
    /\ UNCHANGED <<mem, memOp, fn, vm, jitOp, comp, promo, wvm, leb, inst>>

\* The inputs the modules are constructed on: the header followed by every
\* byte sequence up to MaxTail over TailBytes (section ids and sizes 0, 1
\* and 10, and 129, a size byte with the continuation flag), the header with
\* one byte replaced, alone or followed by a section, the header cut short,
\* and the inputs that end in a section id followed by the size byte 128
\* (continuation flag, no value bits).
Header == <<0, 97, 115, 109, 1, 0, 0, 0>>

TailBytes == {0, 1, 10, 129}

ModuleInputs ==
    {Header \o t : t \in SeqsUpTo(TailBytes, MaxTail)}
      \cup {[Header EXCEPT ![i] = b] \o t :
              i \in 1..8, b \in {0, 1, 2, 97, 109, 115}, t \in {<<>>, <<1, 0>>}}
      \cup {SubSeq(Header, 1, n) : n \in 0..7}
      \cup {Header \o t \o <<1, 128>> : t \in {<<>>, <<1, 0>>}}

(***************************************************************************)
(* int32_t.  An i32 is an integer of INT32_MIN..INT32_MAX; its bit pattern *)
(* is the uint32_t it is congruent to modulo 2^32.                         *)
(***************************************************************************)
INT32_MAX == 2147483647

INT32_MIN == -INT32_MAX - 1

\* The int32_t with the bit pattern u
ToI32(u) ==
    IF u.hi >= PAGE_SIZE \div 2
    THEN (u.hi - PAGE_SIZE) * PAGE_SIZE + u.lo
    ELSE u.hi * PAGE_SIZE + u.lo

\* The bit pattern of the int32_t x
FromI32(x) ==
    IF x >= 0 THEN U32Of(x)
    ELSE [hi |-> ((x - INT32_MIN) \div PAGE_SIZE) + PAGE_SIZE \div 2,
          lo |-> (x - INT32_MIN) % PAGE_SIZE]

\* The two's complement result of the machine's 32-bit add, sub and imul
WrapAdd(a, b) ==
    IF a > 0 /\ b > INT32_MAX - a THEN (a - INT32_MAX - 1) + (b - INT32_MAX - 1)
    ELSE IF a < 0 /\ b < INT32_MIN - a
    THEN (a + INT32_MAX + 1) + (b + INT32_MAX + 1)
    ELSE a + b

WrapSub(a, b) ==
    IF b < 0 /\ a > INT32_MAX + b THEN (a - INT32_MAX - 1) - (b + INT32_MAX + 1)
    ELSE IF b > 0 /\ a < INT32_MIN + b
    THEN (a + INT32_MAX + 1) - (b - INT32_MAX - 1)
    ELSE a - b

\* a * n for n >= 0, by halving n: a * n is twice a * (n \div 2), plus a when
\* n is odd
RECURSIVE WrapMulNat(_, _)
WrapMulNat(a, n) ==
    IF n = 0 THEN 0
    ELSE CHOOSE r \in {WrapAdd(IF n % 2 = 1 THEN a ELSE 0, WrapAdd(h, h)) :
                         h \in {WrapMulNat(a, n \div 2)}} : TRUE

WrapMul(a, b) ==
    IF b >= 0 THEN WrapMulNat(a, b)
    ELSE WrapAdd(IF a % 2 = 1 THEN INT32_MIN ELSE 0, WrapMulNat(a, b - INT32_MIN))

(***************************************************************************)
(* WasmVM.  A frame holds pc as the offset of the next byte (the byte at   *)
(* offset pc is bytecode[pc + 1], end is Len(bytecode)), the operand stack *)
(* and the locals; a WasmValue is held as its i32.                         *)
(***************************************************************************)

\* The opcode bytes call_exported_function writes in its byte sequences
OpcodeInSource ==
    [RETURN |-> 15, LOCAL_GET |-> 32, I32_CONST |-> 65, I32_ADD |-> 106,
     I32_MUL |-> 108]

\* The other values of enum Opcode that execute_instruction has a case for
OpcodeInHeader ==
    [NOP |-> 1, END |-> 11, LOCAL_SET |-> 33, I32_SUB |-> 107,
     F32_ADD |-> 146, F64_ADD |-> 160]

Opcode == OpcodeInSource @@ OpcodeInHeader

\* WasmValue(): the i32 of a value that was given none
DefaultI32 == 0

NewFrame(locals) == [pc |-> 0, stack |-> <<>>, locals |-> locals]

\* What a handler can do: return ret with the frame as it left it, or, where
\* the C++ operation is undefined, abort the process
Returns(ret, frame) == [ret |-> ret, frame |-> frame, trap |-> FALSE]

Aborts(frame) == [ret |-> FALSE, frame |-> frame, trap |-> TRUE]

\* WasmVM::read_leb128_i32(pc, end): the do-while loop
RECURSIVE Leb128LoopI32(_, _, _, _)
Leb128LoopI32(data, ptr, result, shift) ==
    IF ptr >= Len(data) THEN [result |-> result, ptr |-> ptr]
    ELSE LET byte == data[ptr + 1]
             r == OrU32(result, ShlU32(byte % 128, shift))
         IN IF byte \div 128 # 0 /\ shift + 7 < 32
            THEN Leb128LoopI32(data, ptr + 1, r, shift + 7)
            ELSE [result |-> r, ptr |-> ptr + 1]

\* WasmVM::read_leb128_i32(pc, end): the int32_t returned and the new pc
read_leb128_i32(data, ptr) ==
    LET r == Leb128LoopI32(data, ptr, U32Of(0), 0)
    IN [result |-> ToI32(r.result), ptr |-> r.ptr]

\* handle_i32_const that reads the immediate and pushes nothing
handle_i32_const_Discard(bytecode, frame) ==
    LET value == read_leb128_i32(bytecode, frame.pc)
    IN {Returns(TRUE, [frame EXCEPT !.pc = value.ptr])}

\* WasmVM::handle_i32_const
handle_i32_const(bytecode, frame) ==
    LET value == read_leb128_i32(bytecode, frame.pc)
    IN {Returns(TRUE, [frame EXCEPT !.pc = value.ptr,
                                    !.stack = Append(@, value.result)])}

\* a.i32 + b.i32, a.i32 - b.i32, a.i32 * b.i32 in int: the values the
\* expression can have.  Overflow of a signed operation is undefined; the
\* machine instruction wraps, a build that traps on overflow aborts.
I32Wrapped(op, a, b) ==
    CASE op = "I32_ADD" -> WrapAdd(a, b)
      [] op = "I32_SUB" -> WrapSub(a, b)
      [] op = "I32_MUL" -> WrapMul(a, b)

\* a + b, a - b, a * b are outside int32_t
I32Overflows(op, a, b) ==
    CASE op = "I32_ADD" ->
           (a > 0 /\ b > INT32_MAX - a) \/ (a < 0 /\ b < INT32_MIN - a)
      [] op = "I32_SUB" ->
           (b < 0 /\ a > INT32_MAX + b) \/ (b > 0 /\ a < INT32_MIN + b)
      [] op = "I32_MUL" ->
           CASE a = 0 \/ b = 0 -> FALSE
             [] a > 0 /\ b > 0 -> a > INT32_MAX \div b
             [] a > 0 /\ b < 0 ->
                  b < (INT32_MIN \div a) + (IF INT32_MIN % a = 0 THEN 0 ELSE 1)
             [] a < 0 /\ b > 0 ->
                  a < (INT32_MIN \div b) + (IF INT32_MIN % b = 0 THEN 0 ELSE 1)
             [] OTHER ->
                  a = INT32_MIN \/ b = INT32_MIN \/ (-a) > INT32_MAX \div (-b)

\* WasmVM::handle_i32_add, handle_i32_sub, handle_i32_mul
handle_i32_binary(op, frame) ==
    IF Len(frame.stack) < 2 THEN {Returns(FALSE, frame)}
    ELSE LET b == frame.stack[Len(frame.stack)]
             a == frame.stack[Len(frame.stack) - 1]
             rest == SubSeq(frame.stack, 1, Len(frame.stack) - 2)
         IN {Returns(TRUE, [frame EXCEPT !.stack = Append(rest, I32Wrapped(op, a, b))])}
              \cup (IF I32Overflows(op, a, b) THEN {Aborts(frame)} ELSE {})

\* The i32 read from a value a float was stored in: the members of the
\* union share their bytes, and reading another member than the one written
\* is undefined
FloatBits == {0, 1}

\* WasmVM::handle_f32_add, handle_f64_add
handle_float_add(frame) ==
    IF Len(frame.stack) < 2 THEN {Returns(FALSE, frame)}
    ELSE LET rest == SubSeq(frame.stack, 1, Len(frame.stack) - 2)
         IN {Returns(TRUE, [frame EXCEPT !.stack = Append(rest, bits)]) :
               bits \in FloatBits}

\* handle_local_get that pushes a zero for an index out of range
handle_local_get_PushZero(bytecode, frame) ==
    LET local_index == read_leb128_u32(bytecode, frame.pc)
        f == [frame EXCEPT !.pc = local_index.ptr]
    IN IF LeqU32(U32Of(Len(frame.locals)), local_index.result)
       THEN {Returns(TRUE, [f EXCEPT !.stack = Append(@, 0)])}
       ELSE {Returns(TRUE, [f EXCEPT !.stack =
                                       Append(@, frame.locals[local_index.result.lo + 1])])}

\* WasmVM::handle_local_get
handle_local_get(bytecode, frame) ==
    LET local_index == read_leb128_u32(bytecode, frame.pc)
        f == [frame EXCEPT !.pc = local_index.ptr]
    IN IF LeqU32(U32Of(Len(frame.locals)), local_index.result)
       THEN {Returns(FALSE, f)}
       ELSE {Returns(TRUE, [f EXCEPT !.stack =
                                       Append(@, frame.locals[local_index.result.lo + 1])])}

\* handle_local_set that pops the value before it tests the index
handle_local_set_PopFirst(bytecode, frame) ==
    LET local_index == read_leb128_u32(bytecode, frame.pc)
        f == [frame EXCEPT !.pc = local_index.ptr]
    IN IF frame.stack = <<>> THEN {Returns(FALSE, f)}
       ELSE IF LeqU32(U32Of(Len(frame.locals)), local_index.result)
       THEN {Returns(FALSE, [f EXCEPT !.stack = SubSeq(@, 1, Len(@) - 1)])}
       ELSE {Returns(TRUE,
                     [f EXCEPT !.locals[local_index.result.lo + 1] =
                                  frame.stack[Len(frame.stack)],
                               !.stack = SubSeq(@, 1, Len(@) - 1)])}

\* WasmVM::handle_local_set
handle_local_set(bytecode, frame) ==
    LET local_index == read_leb128_u32(bytecode, frame.pc)
        f == [frame EXCEPT !.pc = local_index.ptr]
    IN IF LeqU32(U32Of(Len(frame.locals)), local_index.result) \/ frame.stack = <<>>
       THEN {Returns(FALSE, f)}
       ELSE {Returns(TRUE,
                     [f EXCEPT !.locals[local_index.result.lo + 1] =
                                  frame.stack[Len(frame.stack)],
                               !.stack = SubSeq(@, 1, Len(@) - 1)])}

\* WasmVM::handle_return
handle_return(frame) == {Returns(FALSE, frame)}

\* case Opcode::END taken as an instruction without effect
handle_end_Continue(frame) == {Returns(TRUE, frame)}

\* execute_instruction, case Opcode::END
handle_end(frame) == {Returns(FALSE, frame)}

\* The default case with the frame halted
handle_default_Halt(frame) == {Returns(FALSE, frame)}

\* The default case that steps back to the opcode it was given
handle_default_Rewind(frame) == {Returns(TRUE, [frame EXCEPT !.pc = @ - 1])}

\* execute_instruction, case Opcode::NOP and the default case
handle_default(frame) == {Returns(TRUE, frame)}

\* WasmVM::execute_instruction(frame), with frame.pc < frame.end
execute_instruction(bytecode, frame) ==
    LET opcode == bytecode[frame.pc + 1]
        f == [frame EXCEPT !.pc = @ + 1]
    IN CASE opcode = Opcode.NOP -> handle_default(f)
         [] opcode = Opcode.I32_CONST -> handle_i32_const(bytecode, f)
         [] opcode = Opcode.I32_ADD -> handle_i32_binary("I32_ADD", f)
         [] opcode = Opcode.I32_SUB -> handle_i32_binary("I32_SUB", f)
         [] opcode = Opcode.I32_MUL -> handle_i32_binary("I32_MUL", f)
         [] opcode = Opcode.F32_ADD -> handle_float_add(f)
         [] opcode = Opcode.F64_ADD -> handle_float_add(f)
         [] opcode = Opcode.LOCAL_GET -> handle_local_get(bytecode, f)
         [] opcode = Opcode.LOCAL_SET -> handle_local_set(bytecode, f)
         [] opcode = Opcode.RETURN -> handle_return(f)
         [] opcode = Opcode.END -> handle_end(f)
         [] OTHER -> handle_default(f)

\* The last thing execute_function did: "begin" (the frame was pushed),
\* "empty" (it returned on an empty byte sequence), "end_of_bytes" (the
\* loop found pc >= end) or "instruction" (execute_instruction ran opcode
\* and returned ret), with the frame before and after it
WasmStep(kind, opcode, ret, before, after) ==
    [kind |-> kind, opcode |-> opcode, ret |-> ret, before |-> before, after |-> after]

NoWasmStep == WasmStep("none", 0, FALSE, NewFrame(<<>>), NewFrame(<<>>))

\* A WasmVM and the call it is given: phase is "idle" before the call,
\* "run" inside the loop of execute_function, "done" when it has returned
\* and "abort" when the process was aborted; steps counts the instructions
\* of the current call
NewWasmVM(bytecode, args) ==
    [phase |-> "idle", bytecode |-> bytecode, args |-> args, call_stack_ |-> <<>>,
     result |-> Undefined, last |-> NoWasmStep, steps |-> 0]

\* Set up local variables from arguments
LocalsOf(args) ==
    [i \in 1..Len(args) |-> IF is_number(args[i]) THEN args[i].n ELSE DefaultI32]

\* WasmValue result; if (!stack.empty()) result = stack.back();
\* return Value(static_cast<double>(result.i32))
FrameResult(frame) ==
    Num(IF frame.stack = <<>> THEN DefaultI32 ELSE frame.stack[Len(frame.stack)])

\* execute_function that pushes the frame before it tests for an empty byte
\* sequence
WvmExecuteFunction_PushFirst ==
    /\ wvm.phase \in {"idle", "done"}
    /\ LET frame == NewFrame(LocalsOf(wvm.args))
       IN IF wvm.bytecode = <<>>
          THEN wvm' = [wvm EXCEPT !.phase = "done", !.result = Undefined,
                                  !.steps = 0,
                                  !.call_stack_ = Append(@, frame),
                                  !.last = WasmStep("empty", 0, FALSE, NewFrame(<<>>),
                                                    NewFrame(<<>>))]
          ELSE wvm' = [wvm EXCEPT !.phase = "run", !.result = Undefined,
                                  !.steps = 0,
                                  !.call_stack_ = Append(@, frame),
                                  !.last = WasmStep("begin", 0, FALSE, frame, frame)]
    /\ UNCHANGED <<mem, memOp, fn, vm, jitOp, comp, promo, module, modOp, leb, inst>>

\* WasmVM::execute_function, up to the loop
WvmExecuteFunction ==
    /\ wvm.phase \in {"idle", "done"}
    /\ IF wvm.bytecode = <<>>
       THEN wvm' = [wvm EXCEPT !.phase = "done", !.result = Undefined,
                               !.steps = 0,
                               !.last = WasmStep("empty", 0, FALSE, NewFrame(<<>>),
                                                 NewFrame(<<>>))]
       ELSE LET frame == NewFrame(LocalsOf(wvm.args))
            IN wvm' = [wvm EXCEPT !.phase = "run", !.result = Undefined,
                                  !.steps = 0,
                                  !.call_stack_ = Append(@, frame),
                                  !.last = WasmStep("begin", 0, FALSE, frame, frame)]
    /\ UNCHANGED <<mem, memOp, fn, vm, jitOp, comp, promo, module, modOp, leb, inst>>

\* WasmVM::execute_function, one iteration of the loop
WvmLoop ==
    /\ wvm.phase = "run"
    /\ wvm.call_stack_ # <<>>
    /\ LET current_frame == wvm.call_stack_[Len(wvm.call_stack_)]
           popped == SubSeq(wvm.call_stack_, 1, Len(wvm.call_stack_) - 1)
       IN IF current_frame.pc >= Len(wvm.bytecode)
          THEN wvm' = [wvm EXCEPT !.phase = "done",
                                  !.result = FrameResult(current_frame),
                                  !.call_stack_ = popped,
                                  !.last = WasmStep("end_of_bytes", 0, FALSE,
                                                    current_frame, current_frame)]
          ELSE \E r \in execute_instruction(wvm.bytecode, current_frame) :
                 LET step == WasmStep("instruction",
                                      wvm.bytecode[current_frame.pc + 1],
                                      r.ret, current_frame, r.frame)
                 IN wvm' =
                      IF r.trap
                      THEN [wvm EXCEPT !.phase = "abort", !.last = step,
                                       !.steps = @ + 1]
                      ELSE IF ~r.ret
                      THEN [wvm EXCEPT !.phase = "done",
                                       !.result = FrameResult(r.frame),
                                       !.call_stack_ = popped,
                                       !.last = step, !.steps = @ + 1]
                      ELSE [wvm EXCEPT !.call_stack_ = Append(popped, r.frame),
                                       !.last = step, !.steps = @ + 1]
    /\ UNCHANGED <<mem, memOp, fn, vm, jitOp, comp, promo, module, modOp, leb, inst>>

\* The calls the interpreter is given.  The byte sequences are those of
\* call_exported_function with each of the three binary opcodes, I32_CONST
\* with every one-byte immediate, a LOCAL_SET of each index followed by a
\* LOCAL_GET, and every sequence up to MaxCode over CodeBytes (an opcode of
\* every case of execute_instruction, 0 and 1 also serving as indices, and
\* 26, an opcode without a case).
I32Values == {0, 1, 3, 5, -5, INT32_MAX, INT32_MIN}

CodeBytes == {0, 1, 11, 15, 26, 32, 33, 65, 106, 146}

WasmCall(bytecode, args) == [bytecode |-> bytecode, args |-> args]

WasmCalls ==
    {WasmCall(<<32, 0, 32, 1, op, 15>>, <<Num(a), Num(b)>>) :
        op \in {106, 107, 108}, a \in I32Values, b \in I32Values}
      \cup {WasmCall(<<65, k, 15>>, <<>>) : k \in 0..127}
      \cup {WasmCall(<<65, 42, 33, i, 32, 0, 15>>, args) :
              i \in 0..2, args \in {<<>>, <<Num(5), Num(3)>>}}
      \cup {WasmCall(bytecode, args) :
              bytecode \in SeqsUpTo(CodeBytes, MaxCode),
              args \in {<<>>, <<Num(5), Num(3)>>, <<Str(<<"a">>), Num(3)>>}}

(***************************************************************************)
(* The variable-length integer decoders on their own: leb holds the input, *)
(* the offset the decoder was called at, and what it returned              *)
(***************************************************************************)
NewLeb(data) ==
    [data |-> data, op |-> "none", from |-> 0, result |-> U32Of(0), ptr |-> 0]

\* WasmModule::read_leb128_u32 and WasmVM::read_leb128_u32
LebReadU32 ==
    /\ leb.op = "none"
    /\ \E from \in 0..Len(leb.data) :
         LET r == read_leb128_u32(leb.data, from)
         IN leb' = [leb EXCEPT !.op = "read_leb128_u32", !.from = from,
                               !.result = r.result, !.ptr = r.ptr]
    /\ UNCHANGED <<mem, memOp, fn, vm, jitOp, comp, promo, module, modOp, wvm, inst>>

\* WasmVM::read_leb128_i32
LebReadI32 ==
    /\ leb.op = "none"
    /\ \E from \in 0..Len(leb.data) :
         LET r == read_leb128_i32(leb.data, from)
         IN leb' = [leb EXCEPT !.op = "read_leb128_i32", !.from = from,
                               !.result = FromI32(r.result), !.ptr = r.ptr]
    /\ UNCHANGED <<mem, memOp, fn, vm, jitOp, comp, promo, module, modOp, wvm, inst>>

(***************************************************************************)
(* WasmInstance.  module_ is whether the instance holds a module (the      *)
(* module is the variable module); memory_ and vm_ are unique_ptrs: obj is *)
(* 0 for a null pointer and otherwise the serial number of the object it   *)
(* owns, objects counts the objects the instance has created; the WasmVM   *)
(* keeps the pointer it was constructed on.                                *)
(***************************************************************************)
NullMemory == [obj |-> 0, mem |-> NoMemory]

NullVM == [obj |-> 0, memory_ |-> 0]

\* module_ && module_->is_compiled()
HasCompiledModule(i, m) == i.module_ /\ m.is_compiled_

\* The last call on the instance: its name, the export and the arguments of
\* a call_exported_function, what it returned, and the instance and whether
\* it had a compiled module before it
InstOp(op, name, args, ret, result, before, compiled) ==
    [op |-> op, name |-> name, args |-> args, ret |-> ret, result |-> result,
     memory_ |-> before.memory_, vm_ |-> before.vm_, compiled |-> compiled]

\* WasmInstance::WasmInstance; alive is false once a call has aborted the
\* process
NewInstance(has_module) ==
    [module_ |-> has_module, memory_ |-> NullMemory, vm_ |-> NullVM,
     objects |-> 0, alive |-> TRUE,
     last |-> [op |-> "none", name |-> "", args |-> <<>>, ret |-> FALSE,
               result |-> Undefined, memory_ |-> NullMemory, vm_ |-> NullVM,
               compiled |-> FALSE]]

\* if (!memory_) memory_ = std::make_unique<WasmMemory>(1, 1024)
EnsureMemory(i) ==
    IF i.memory_.obj # 0 THEN {i}
    ELSE {[i EXCEPT !.objects = @ + 1,
                    !.memory_ = [obj |-> i.objects + 1,
                                 mem |-> NewMemory(U32Of(1), U32Of(1024), bytes)]] :
            bytes \in InitialBytes(U32Of(1))}

\* if (!vm_) vm_ = std::make_unique<WasmVM>(memory_.get())
EnsureVM(i) ==
    IF i.vm_.obj # 0 THEN i
    ELSE [i EXCEPT !.objects = @ + 1,
                   !.vm_ = [obj |-> i.objects + 1, memory_ |-> i.memory_.obj]]

\* instantiate without the test of the module
instantiate_NoModuleTest(i, m) ==
    {[ret |-> TRUE, inst |-> EnsureVM(j)] : j \in EnsureMemory(i)}

\* instantiate that makes a new memory on every call
instantiate_NewMemoryEachCall(i, m) ==
    IF ~HasCompiledModule(i, m) THEN {[ret |-> FALSE, inst |-> i]}
    ELSE {[ret |-> TRUE, inst |-> EnsureVM(j)] :
            j \in EnsureMemory([i EXCEPT !.memory_ = NullMemory])}

\* WasmInstance::instantiate on an instance whose module, if any, is m: what
\* it returns and the instance it leaves
instantiate(i, m) ==
    IF ~HasCompiledModule(i, m) THEN {[ret |-> FALSE, inst |-> i]}
    ELSE {[ret |-> TRUE, inst |-> EnsureVM(j)] : j \in EnsureMemory(i)}

\* The loop of WasmVM::execute_function on the frame of the call: what the
\* call comes to, the value returned or the abort of the process (trap)
RECURSIVE RunFrame(_, _)
RunFrame(bytecode, frame) ==
    IF frame.pc >= Len(bytecode) THEN {[trap |-> FALSE, result |-> FrameResult(frame)]}
    ELSE UNION {IF r.trap THEN {[trap |-> TRUE, result |-> Undefined]}
                ELSE IF ~r.ret THEN {[trap |-> FALSE, result |-> FrameResult(r.frame)]}
                ELSE RunFrame(bytecode, r.frame) :
                  r \in execute_instruction(bytecode, frame)}

\* WasmVM::execute_function(bytecode, args), from call to return
execute_function(bytecode, args) ==
    IF bytecode = <<>> THEN {[trap |-> FALSE, result |-> Undefined]}
    ELSE RunFrame(bytecode, NewFrame(LocalsOf(args)))

\* WasmInstance::call_exported_function(name, args)
call_exported_function(i, m, name, args) ==
    IF i.vm_.obj = 0 \/ ~HasCompiledModule(i, m)
    THEN {[trap |-> FALSE, result |-> Undefined]}
    ELSE CASE name = "add" -> execute_function(<<32, 0, 32, 1, 106, 15>>, args)
           [] name = "multiply" -> execute_function(<<32, 0, 32, 1, 108, 15>>, args)
           [] name = "const42" -> execute_function(<<65, 42, 15>>, args)
           [] OTHER -> {[trap |-> FALSE, result |-> Undefined]}

InstInstantiate ==
    /\ inst.alive
    /\ \E r \in instantiate(inst, module) :
         inst' = [r.inst EXCEPT
                    !.last = InstOp("instantiate", "", <<>>, r.ret, Undefined,
                                    inst, HasCompiledModule(inst, module))]
    /\ UNCHANGED <<mem, memOp, fn, vm, jitOp, comp, promo, module, modOp, wvm, leb>>

\* call_exported_function with the name of each export and a name that is
\* none of them
InstCallExported ==
    /\ inst.alive
    /\ \E name \in {"add", "multiply", "const42", "other"},
          args \in {<<>>, <<Num(5), Num(3)>>, <<Num(INT32_MAX), Num(1)>>} :
         \E r \in call_exported_function(inst, module, name, args) :
            inst' = [inst EXCEPT
                       !.alive = ~r.trap,
                       !.last = InstOp("call_exported_function", name, args,
                                       ~r.trap, r.result, inst,
                                       HasCompiledModule(inst, module))]
    /\ UNCHANGED <<mem, memOp, fn, vm, jitOp, comp, promo, module, modOp, wvm, leb>>

(***************************************************************************)
(* Specifications                                                          *)
(***************************************************************************)
InitMemory ==
    /\ mem = NoMemory
    /\ memOp = NoMemOp

InitFunction ==
    /\ fn = NewFunction(<<>>, <<>>, 0, 0)
    /\ vm = IdleVM
    /\ jitOp = NoJitOp

InitCompiler ==
    /\ comp = NewCompiler(TRUE)
    /\ promo = IdleThreads

InitModule ==
    /\ module = NewModule(<<>>)
    /\ modOp = NoModOp

InitInstance == inst = NewInstance(FALSE)

InitInterp ==
    /\ wvm = NewWasmVM(<<>>, <<>>)
    /\ leb = NewLeb(<<>>)

InitMem ==
    /\ InitInstance
    /\ InitMemory
    /\ InitInterp
    /\ InitFunction
    /\ InitCompiler
    /\ InitModule

SpecMem == InitMem /\ [][MemConstruct \/ MemScriptConstructor \/ MemGrow]_vars

InitVM ==
    /\ InitInstance
    /\ InitInterp
    /\ InitMemory
    /\ InitCompiler
    /\ InitModule
    /\ jitOp = NoJitOp
    /\ vm = IdleVM
    /\ \E instructions \in SeqsUpTo(InstrSet, MaxInstr),
          register_count \in 0..MaxRegs, parameter_count \in 0..MaxRegs :
         fn = NewFunction(instructions, PoolConstants, register_count, parameter_count)

SpecVM ==
    /\ InitVM
    /\ [][VmExecuteBegin
          \/ VmExecuteStep
          \/ VmExecuteReturn]_vars

InitJIT ==
    /\ InitInstance
    /\ InitInterp
    /\ InitMemory
    /\ InitCompiler
    /\ InitModule
    /\ vm = IdleVM
    /\ jitOp = NoJitOp
    /\ \E instructions \in JitPrograms :
         fn = NewFunction(instructions, PoolConstants, 0, 0)

SpecJIT ==
    /\ InitJIT
    /\ [][JitRecordExecution
          \/ JitShouldCompile
          \/ JitCompileToMachineCode
          \/ JitOptimizeBytecode]_vars

\* The compiler, then the interpreter and the promotion on what it compiled
InitCompile ==
    /\ InitInstance
    /\ InitInterp
    /\ InitMemory
    /\ InitFunction
    /\ InitModule
    /\ promo = IdleThreads
    /\ \E optimization_enabled \in BOOLEAN : comp = NewCompiler(optimization_enabled)

SpecCompile ==
    /\ InitCompile
    /\ [][CompCompile
          \/ CompExecuteBegin
          \/ CompExecuteStep
          \/ CompExecuteReturn
          \/ CompPromote]_vars

\* The instructions of the functions the passes are run on
OptInstrSet ==
    {Op("NOP", <<>>), Op("ADD", <<>>), Op("RETURN", <<>>),
     Op("LOAD_CONST", <<Operand("CONSTANT", 0)>>)}

\* The optimization passes, on any instruction sequence and on what the
\* compiler produced
InitOpt ==
    /\ InitInstance
    /\ InitInterp
    /\ InitMemory
    /\ InitModule
    /\ vm = IdleVM
    /\ jitOp = NoJitOp
    /\ promo = IdleThreads
    /\ \E optimization_enabled \in BOOLEAN : comp = NewCompiler(optimization_enabled)
    /\ \E instructions \in SeqsUpTo(OptInstrSet, MaxInstr) :
         fn = NewFunction(instructions, PoolConstants, 0, 0)

SpecOpt ==
    /\ InitOpt
    /\ [][CompCompile
          \/ JitOptimizeBytecode
          \/ OptDeadCodeElimination]_vars

\* Concurrent promotion of one function, fresh or optimized by the compiler
InitPromo ==
    /\ InitInstance
    /\ InitInterp
    /\ InitMemory
    /\ InitModule
    /\ vm = IdleVM
    /\ jitOp = NoJitOp
    /\ comp = NewCompiler(TRUE)
    /\ promo = IdleThreads
    /\ \E instructions \in JitPrograms, level \in 0..2 :
         fn = optimize_bytecode(NewFunction(instructions, PoolConstants, 0, 0), level)

SpecPromo ==
    /\ InitPromo
    /\ [][\E t \in Threads : PromoCheck(t) \/ PromoUpdate(t)]_vars

\* The decoder, on a module constructed on any of the inputs
InitDecode ==
    /\ InitInstance
    /\ InitInterp
    /\ InitMemory
    /\ InitFunction
    /\ InitCompiler
    /\ modOp = NoModOp
    /\ \E binary_data \in ModuleInputs : module = NewModule(binary_data)

SpecDecode == InitDecode /\ [][ModCompile]_vars

\* The module interpreter on each of the calls
InitWasm ==
    /\ InitInstance
    /\ InitMemory
    /\ InitFunction
    /\ InitCompiler
    /\ InitModule
    /\ leb = NewLeb(<<>>)
    /\ \E call \in WasmCalls : wvm = NewWasmVM(call.bytecode, call.args)

SpecWasm == InitWasm /\ [][WvmExecuteFunction \/ WvmLoop]_vars

\* The variable-length integer decoders on every byte sequence up to MaxLeb
InitLeb ==
    /\ InitInstance
    /\ InitMemory
    /\ InitFunction
    /\ InitCompiler
    /\ InitModule
    /\ wvm = NewWasmVM(<<>>, <<>>)
    /\ \E data \in SeqsUpTo({64, 127, 129, 255}, MaxLeb) : leb = NewLeb(data)

SpecLeb == InitLeb /\ [][LebReadU32 \/ LebReadI32]_vars

\* The interpreter and the promotion on one function: execute is called again
\* and again, compile_to_machine_code before, between and during the calls
InitRun ==
    /\ InitInstance
    /\ InitInterp
    /\ InitMemory
    /\ InitCompiler
    /\ InitModule
    /\ jitOp = NoJitOp
    /\ vm = IdleVM
    /\ \E instructions \in SeqsUpTo(RunInstrSet, MaxInstr),
          register_count \in 0..MaxRegs :
         fn = NewFunction(instructions, PoolConstants, register_count, register_count)

SpecRun ==
    /\ InitRun
    /\ [][VmExecuteBegin
          \/ VmExecuteStep
          \/ VmExecuteReturn
          \/ JitCompileToMachineCode]_vars

\* The bytes of the calls of the module interpreter whose loop is followed
\* to its end: opcodes without and with an immediate, RETURN, an opcode
\* without a case, and 129, an immediate byte with the continuation flag
TermBytes == {1, 15, 26, 33, 65, 106, 129}

\* Both interpreters, each on its inputs while the other is given the empty
\* function or the empty byte sequence; the module interpreter is given the
\* byte sequences of call_exported_function on every pair of arguments and
\* every sequence up to MaxCode over TermBytes.  Both loops are synchronous:
\* once entered, a loop takes its next step, which is the weak fairness of
\* the steps.
InitTerm ==
    /\ InitInstance
    /\ InitMemory
    /\ InitCompiler
    /\ InitModule
    /\ leb = NewLeb(<<>>)
    /\ jitOp = NoJitOp
    /\ vm = IdleVM
    /\ \/ /\ wvm = NewWasmVM(<<>>, <<>>)
          /\ \E instructions \in SeqsUpTo(RunInstrSet, MaxInstr) :
               fn = NewFunction(instructions, PoolConstants, 0, 0)
       \/ /\ fn = NewFunction(<<>>, <<>>, 0, 0)
          /\ \E call \in
                 {WasmCall(<<32, 0, 32, 1, op, 15>>, <<Num(a), Num(b)>>) :
                    op \in {106, 107, 108}, a \in I32Values, b \in I32Values}
                   \cup {WasmCall(bytecode, <<Num(5), Num(3)>>) :
                           bytecode \in SeqsUpTo(TermBytes, MaxCode)} :
               wvm = NewWasmVM(call.bytecode, call.args)

SpecTerm ==
    /\ InitTerm
    /\ [][VmExecuteBegin
          \/ VmExecuteStep
          \/ VmExecuteReturn
          \/ WvmExecuteFunction
          \/ WvmLoop]_vars
    /\ WF_vars(VmExecuteStep)
    /\ WF_vars(VmExecuteReturn)
    /\ WF_vars(WvmLoop)

\* An instance with or without a module; the module is compiled, or fails to
\* compile, before, between or after the calls on the instance.  The modules
\* are made on the header alone, the header and an empty section, a section
\* longer than the input, and no bytes at all.
InitInst ==
    /\ InitInterp
    /\ InitMemory
    /\ InitFunction
    /\ InitCompiler
    /\ modOp = NoModOp
    /\ \E binary_data \in {Header, Header \o <<1, 0>>, Header \o <<1, 10>>, <<>>} :
         module = NewModule(binary_data)
    /\ \E has_module \in BOOLEAN : inst = NewInstance(has_module)

SpecInst ==
    /\ InitInst
    /\ [][ModCompile
          \/ InstInstantiate
          \/ InstCallExported]_vars

(***************************************************************************)
(* Properties                                                              *)
(***************************************************************************)

\* C1: grow(delta) with page count + delta <= maximum returns success and
\* afterwards size() is the previous page count plus delta.
C1_GrowWithinMaximum ==
    (/\ memOp.op = "grow"
     /\ CarryU32(memOp.prev_pages, memOp.delta) = 0
     /\ LeqU32(AddU32(memOp.prev_pages, memOp.delta), mem.maximum_pages_))
    => (/\ memOp.ret = TRUE
        /\ Size(mem) = AddU32(memOp.prev_pages, memOp.delta))

\* C2: grow(delta) with page count + delta > maximum (the sum taken in the
\* integers, not modulo 2^32) returns failure and leaves the page count and
\* the length of the buffer unchanged.
C2_GrowBeyondMaximum ==
    (/\ memOp.op = "grow"
     /\ \/ CarryU32(memOp.prev_pages, memOp.delta) = 1
        \/ GtU32(AddU32(memOp.prev_pages, memOp.delta), mem.maximum_pages_))
    => (/\ memOp.ret = FALSE
        /\ Size(mem) = memOp.prev_pages
        /\ mem.byte_length = memOp.prev_len)

\* C3: in every state of a constructed memory the page count is at most the
\* maximum page count.
C3_PagesAtMostMaximum ==
    mem.exists => LeqU32(Size(mem), mem.maximum_pages_)

\* C4: every instruction execute runs at program counter pc increments
\* hot_spots[pc] of the function by one.
C4_StepCountsHotSpot ==
    [][(vm.phase = "loop" /\ vm'.trace # vm.trace)
         => HotCount(fn', vm.pc) = HotCount(fn, vm.pc) + 1]_vars

\* C5: the operand stack is empty when the loop of execute starts and empty
\* again after every normal return.
C5_StackEmptyAtEntryAndExit ==
    /\ (vm.phase = "loop" /\ vm.trace = <<>>) => vm.stack_ = <<>>
    /\ (vm.phase = "done" /\ ~vm.null_call) => vm.stack_ = <<>>

\* C6: ADD on a stack of at least two values pops b then a and pushes a + b
\* when both are numbers, otherwise toString(a) followed by toString(b);
\* (3,4) gives 7, ("a","b") gives "ab", (3,"b") gives "3b"; the stack is one
\* shorter and the values below are untouched; execute_fast_add agrees.
C6_AddSemantics ==
    (vm.phase = "loop" /\ vm.last_op.instruction = "ADD" /\ Len(vm.prev_stack) >= 2)
    => LET n == Len(vm.prev_stack)
           a == vm.prev_stack[n - 1]
           b == vm.prev_stack[n]
           r == vm.stack_[n - 1]
       IN /\ Len(vm.stack_) = n - 1
          /\ SubSeq(vm.stack_, 1, n - 2) = SubSeq(vm.prev_stack, 1, n - 2)
          /\ (a.t = "number" /\ b.t = "number") => r = Num(a.n + b.n)
          /\ ~(a.t = "number" /\ b.t = "number")
               => r = Str(to_string(a) \o to_string(b))
          /\ (a = Num(3) /\ b = Num(4)) => r = Num(7)
          /\ (a = Str(<<"a">>) /\ b = Str(<<"b">>)) => r = Str(<<"a", "b">>)
          /\ (a = Num(3) /\ b = Str(<<"b">>)) => r = Str(<<"3", "b">>)
          /\ r = execute_fast_add(a, b)

C6_Witness ==
    /\ vm.phase = "loop"
    /\ vm.last_op.instruction = "ADD"
    /\ vm.prev_stack = <<Num(3), Str(<<"b">>)>>
    /\ vm.stack_ = <<Str(<<"3", "b">>)>>

\* C7: the first RETURN or HALT reached stops execute: the addresses run
\* are 0, 1, 2, ... up to it and none after it, and the result is the value
\* on top of the stack at that moment, or the default value when the stack
\* is empty, the same for HALT as for RETURN.
C7_ReturnOrHaltStops ==
    /\ \A i \in 1..Len(vm.trace) :
          /\ vm.trace[i] = i - 1
          /\ i < Len(vm.trace)
               => fn.instructions[i].instruction \notin {"RETURN", "HALT"}
    /\ (vm.phase \in {"break", "done"}
          /\ vm.last_op.instruction \in {"RETURN", "HALT"})
       => /\ vm.pc = Len(vm.trace) - 1
          /\ fn.instructions[vm.pc + 1] = vm.last_op
    /\ (vm.phase = "done" /\ vm.last_op.instruction \in {"RETURN", "HALT"})
       => vm.result = IF vm.prev_stack = <<>> THEN Undefined
                      ELSE vm.prev_stack[Len(vm.prev_stack)]

C7_Witness ==
    /\ vm.phase = "done"
    /\ vm.last_op.instruction = "HALT"
    /\ Len(vm.trace) < Len(fn.instructions)
    /\ vm.result = Num(4)

\* C8: LOAD_CONST(i) pushes constants[i] when i is an index of the pool;
\* with i out of bounds or without operand it leaves the stack unchanged;
\* in both cases execution goes on with the next instruction.
C8_LoadConst ==
    (vm.phase = "loop" /\ vm.last_op.instruction = "LOAD_CONST")
    => LET valid == /\ vm.last_op.operands # <<>>
                    /\ vm.last_op.operands[1].value < Len(fn.constants)
       IN /\ valid => vm.stack_ =
                 vm.prev_stack \o <<fn.constants[vm.last_op.operands[1].value + 1]>>
          /\ ~valid => vm.stack_ = vm.prev_stack
          /\ vm.pc = vm.trace[Len(vm.trace)] + 1

C8_Witness ==
    /\ vm.phase = "loop"
    /\ vm.last_op = Op("LOAD_CONST", <<Operand("CONSTANT", Len(fn.constants))>>)
    /\ vm.prev_stack = <<Num(3)>>
    /\ vm.stack_ = <<Num(3)>>
    /\ vm.pc = 2

\* C9: should_jit_compile returns true exactly when the function is not
\* null and at least 3 distinct addresses have a hot-spot count at or above
\* the threshold; it leaves the function, its counters included, unchanged.
C9_ShouldPromote ==
    jitOp.op = "should_jit_compile"
    => /\ jitOp.ret <=>
            (/\ ~jitOp.null
             /\ \E a, b, c \in 0..MaxPc :
                  /\ a < b /\ b < c
                  /\ HotCount(fn, a) >= HOT_SPOT_THRESHOLD
                  /\ HotCount(fn, b) >= HOT_SPOT_THRESHOLD
                  /\ HotCount(fn, c) >= HOT_SPOT_THRESHOLD)
       /\ fn = jitOp.before

C9_Witness ==
    /\ jitOp.op = "should_jit_compile"
    /\ jitOp.ret = TRUE
    /\ \A a \in 0..2 : HotCount(fn, a) = HOT_SPOT_THRESHOLD

\* C10: once a promotion (compile_to_machine_code) has succeeded, every
\* later promotion returns failure and leaves the tier and the optimized
\* flag of the function as they were.
C10_PromotionOnce ==
    (jitOp.op = "compile_to_machine_code" /\ ~jitOp.null /\ jitOp.promoted)
    => /\ jitOp.ret = FALSE
       /\ fn.optimization_level = jitOp.before.optimization_level
       /\ fn.is_optimized = jitOp.before.is_optimized
       /\ fn.is_optimized = TRUE

C10_Witness ==
    /\ jitOp.op = "compile_to_machine_code"
    /\ ~jitOp.null
    /\ jitOp.promoted
    /\ jitOp.ret = FALSE
    /\ fn.optimization_level = 3

\* C11: promotion of a non-null function is rejected exactly when the
\* function is already at tier 3; at tier 0, 1 or 2 (tier 2 is what compile
\* yields with optimizations enabled) it succeeds and sets the tier to 3.
C11_RejectedExactlyAtTier3 ==
    (jitOp.op = "compile_to_machine_code" /\ ~jitOp.null)
    => /\ jitOp.ret = FALSE <=> jitOp.before.optimization_level = 3
       /\ jitOp.before.optimization_level \in 0..2
            => jitOp.ret = TRUE /\ fn.optimization_level = 3

\* C12: of the concurrent promotions of one function, at most one returns
\* success, under every interleaving of the test of the flag and its update.
C12_AtMostOneSuccess ==
    Cardinality({t \in Threads : promo[t].pc = "done" /\ promo[t].ret}) <= 1

\* C13: the function compile returns for a non-null node has a non-empty
\* instruction sequence that ends with RETURN, with optimizations enabled
\* or disabled and for every node kind.
C13_EndsWithReturn ==
    Compiled
    => /\ fn.instructions # <<>>
       /\ fn.instructions[Len(fn.instructions)].instruction = "RETURN"

C13_Witness ==
    /\ Compiled
    /\ comp.optimization_enabled_
    /\ comp.node.type = "NUMBER_LITERAL"
    /\ Len(fn.instructions) = 2
    /\ fn.instructions[1].instruction = "LOAD_CONST"
    /\ fn.instructions[2].instruction = "RETURN"

\* C14: a pass (dead_code_elimination_pass, or optimize_bytecode that marks
\* the function optimized) outputs the input sequence without its NOPs, the
\* other instructions in their order; the pass run again on its output
\* changes nothing; a function compiled with optimizations enabled has no
\* NOP.
C14_PassRemovesNops ==
    /\ (\/ jitOp.op = "dead_code_elimination_pass"
        \/ jitOp.op = "optimize_bytecode" /\ ~jitOp.null /\ fn.is_optimized)
       => /\ fn.instructions =
               SelectSeq(jitOp.before.instructions,
                         LAMBDA i : i.instruction # "NOP")
          /\ dead_code_elimination_pass(fn).instructions = fn.instructions
          /\ optimize_bytecode(fn, 2).instructions = fn.instructions
    /\ (Compiled /\ comp.optimization_enabled_)
       => \A i \in 1..Len(fn.instructions) : fn.instructions[i].instruction # "NOP"

C14_Witness ==
    /\ jitOp.op = "dead_code_elimination_pass"
    /\ Len(jitOp.before.instructions) = 3
    /\ jitOp.before.instructions[1].instruction = "NOP"
    /\ jitOp.before.instructions[2].instruction = "ADD"
    /\ jitOp.before.instructions[3].instruction = "NOP"
    /\ Len(fn.instructions) = 1

\* C15: in a function compile produced, every constant-pool index carried
\* by an operand is less than the size of the function's constant pool and
\* every register index is less than its register count.
C15_IndicesInBounds ==
    Compiled
    => \A i \in 1..Len(fn.instructions) :
         \A j \in 1..Len(fn.instructions[i].operands) :
            LET operand == fn.instructions[i].operands[j]
            IN /\ operand.type = "CONSTANT" => operand.value < Len(fn.constants)
               /\ operand.type = "REGISTER" => operand.value < fn.register_count

C15_Witness ==
    /\ Compiled
    /\ comp.node.type = "BINARY_EXPRESSION"
    /\ Len(fn.constants) = 2
    /\ fn.instructions[2].operands[1] = Operand("CONSTANT", 1)

\* C16: compile of a node of a kind it has no case for returns a function;
\* the node contributes a NOP and nothing else (no NOP is left when
\* optimizations are enabled), and execute of the function returns the
\* default value.
C16_UnknownNodeIsNop ==
    (/\ comp.op = "compile"
     /\ comp.node.type \notin {"null", "BINARY_EXPRESSION", "CALL_EXPRESSION",
                               "NUMBER_LITERAL", "STRING_LITERAL",
                               "BOOLEAN_LITERAL"})
    => /\ ~comp.null
       /\ fn.instructions = IF comp.optimization_enabled_
                            THEN <<Op("RETURN", <<>>)>>
                            ELSE <<Op("NOP", <<>>), Op("RETURN", <<>>)>>
       /\ fn.constants = <<>>
       /\ vm.phase = "done" => vm.result = Undefined

C16_Witness ==
    /\ Compiled
    /\ comp.node.type = "IDENTIFIER"
    /\ ~comp.optimization_enabled_
    /\ vm.phase = "done"
    /\ ~vm.null_call
    /\ vm.trace = <<0, 1>>
    /\ vm.result = Undefined

\* C17: the decoder accepts an input only if it has at least 8 bytes, the
\* first 4 being 0x00 0x61 0x73 0x6D and the next 4 0x01 0x00 0x00 0x00;
\* the 8-byte header alone is accepted as a module with zero sections; an
\* input shorter than 8 bytes or differing in one of the first 8 bytes is
\* rejected.
C17_HeaderChecked ==
    (modOp.op = "compile" /\ modOp.parsed)
    => LET data == module.binary_data_
           magic_version == <<0, 97, 115, 109, 1, 0, 0, 0>>
       IN /\ modOp.ret
               => Len(data) >= 8 /\ SubSeq(data, 1, 8) = magic_version
          /\ data = magic_version
               => modOp.ret /\ module.sections_ = <<>> /\ module.is_compiled_
          /\ (\/ Len(data) < 8
              \/ \E i \in 1..8 : data[i] # magic_version[i])
               => ~modOp.ret /\ ~module.is_compiled_

C17_Witness ==
    /\ modOp.op = "compile"
    /\ modOp.parsed
    /\ module.binary_data_ = <<0, 97, 115, 109, 1, 0, 0, 1>>
    /\ ~modOp.ret

\* C18: an input with a section whose declared size is larger than the
\* number of bytes that remain after its size field is rejected, whichever
\* section of the sequence it is.
C18_TruncatedSectionRejected ==
    (/\ modOp.op = "compile"
     /\ \E i \in 1..Len(modOp.trace) :
          GtU32(modOp.trace[i].size, U32Of(modOp.trace[i].remaining)))
    => ~modOp.ret /\ ~module.is_compiled_

C18_Witness ==
    /\ modOp.op = "compile"
    /\ module.binary_data_ = <<0, 97, 115, 109, 1, 0, 0, 0, 1, 10, 0, 0, 0, 0>>
    /\ modOp.trace = <<[size |-> U32Of(10), remaining |-> 4]>>
    /\ ~modOp.ret

\* C19: when compile returns failure no partial module is left: the list of
\* decoded sections is empty and the compiled flag is false, also when a
\* truncated section follows well-formed ones.
C19_NoPartialModule ==
    (modOp.op = "compile" /\ ~modOp.ret)
    => module.sections_ = <<>> /\ ~module.is_compiled_

\* C20: once compile has returned success, a later compile returns success
\* without decoding again and leaves the section list and the compiled flag
\* (true) as they were.
C20_CompileIdempotent ==
    (modOp.op = "compile" /\ modOp.before.is_compiled_)
    => /\ modOp.ret
       /\ ~modOp.parsed
       /\ module = modOp.before
       /\ module.is_compiled_

C20_Witness ==
    /\ modOp.op = "compile"
    /\ modOp.before.is_compiled_
    /\ modOp.ret
    /\ Len(module.sections_) = 2
    /\ module.sections_[2].data = <<10>>

\* C21: on a successful decode the sections are stored in input order:
\* section i starts where section i - 1 stopped (the first at offset 8), its
\* id is the byte there, its size field follows, its payload is the size
\* bytes that follow the size field, and the last section stops at the end
\* of the input.
C21_SectionsAccountForInput ==
    (modOp.op = "compile" /\ modOp.parsed /\ modOp.ret)
    => LET data == module.binary_data_
           n == Len(module.sections_)
           after(i) == Len(data) - modOp.trace[i].remaining
           stop(i) == after(i) + Len(module.sections_[i].data)
           start(i) == IF i = 1 THEN 8 ELSE stop(i - 1)
       IN /\ Len(modOp.trace) = n
          /\ \A i \in 1..n :
               LET section == module.sections_[i]
               IN /\ section.id = data[start(i) + 1]
                  /\ read_leb128_u32(data, start(i) + 1) =
                       [result |-> section.size, ptr |-> after(i)]
                  /\ section.size = U32Of(Len(section.data))
                  /\ section.data = SubSeq(data, after(i) + 1, stop(i))
          /\ (IF n = 0 THEN 8 ELSE stop(n)) = Len(data)

C21_Witness ==
    /\ modOp.op = "compile"
    /\ modOp.ret
    /\ module.binary_data_ = <<0, 97, 115, 109, 1, 0, 0, 0, 10, 1, 129, 0, 1, 0>>
    /\ Len(module.sections_) = 2
    /\ module.sections_[1] = [id |-> 10, size |-> U32Of(1), data |-> <<129>>]
    /\ module.sections_[2] = [id |-> 0, size |-> U32Of(1), data |-> <<0>>]

\* C22: the unsigned decoder consumes the bytes up to and including the
\* first one without the continuation flag, at most 5 and none past the end
\* of the input, and returns the sum of (byte_i AND 0x7F) * 2^(7i) over the
\* bytes consumed, modulo 2^32.
C22_UnsignedLeb128 ==
    (leb.op = "read_leb128_u32")
    => LET data == leb.data
           n == leb.ptr - leb.from
           payload(i) == data[leb.from + 1 + i] % 128
           term(i) == IF i >= n THEN U32Of(0)
                      ELSE IF i < 4 THEN U32Of(payload(i) * 2^(7 * i))
                      ELSE [hi |-> (payload(i) % 16) * 4096, lo |-> 0]
       IN /\ n >= 0 /\ n <= 5
          /\ leb.ptr <= Len(data)
          /\ \A i \in 0..(n - 2) : data[leb.from + 1 + i] >= 128
          /\ \/ n = 5
             \/ leb.ptr = Len(data)
             \/ n >= 1 /\ data[leb.ptr] < 128
          /\ leb.from < Len(data) => n >= 1
          /\ leb.result =
               AddU32(AddU32(AddU32(AddU32(term(0), term(1)), term(2)), term(3)),
                      term(4))

C22_Witness ==
    /\ leb.op = "read_leb128_u32"
    /\ leb.data = <<255, 255, 255, 255, 255, 64>>
    /\ leb.from = 0
    /\ leb.ptr = 5
    /\ leb.result = [hi |-> 65535, lo |-> 65535]

\* C23: I32_CONST pushes its immediate as a signed integer: a one-byte
\* immediate with bit 6 set is sign-extended, so 0x7F pushes -1 and 0x40
\* pushes -64.
C23_ConstSignExtended ==
    (/\ wvm.last.kind = "instruction"
     /\ wvm.last.opcode = 65
     /\ wvm.last.before.pc + 1 < Len(wvm.bytecode)
     /\ wvm.bytecode[wvm.last.before.pc + 2] < 128)
    => LET byte == wvm.bytecode[wvm.last.before.pc + 2]
       IN wvm.last.after.stack =
            Append(wvm.last.before.stack, IF byte >= 64 THEN byte - 128 ELSE byte)

\* C24: the bytes 0x41, k, 0x0F run with no arguments return k, for every
\* k in 0..63.
C24_ConstReturnsImmediate ==
    (/\ wvm.phase = "done"
     /\ Len(wvm.bytecode) = 3
     /\ wvm.bytecode[1] = 65 /\ wvm.bytecode[3] = 15
     /\ wvm.bytecode[2] \in 0..63
     /\ wvm.args = <<>>)
    => wvm.result = Num(wvm.bytecode[2])

C24_Witness ==
    /\ wvm.phase = "done"
    /\ wvm.bytecode = <<65, 42, 15>>
    /\ wvm.args = <<>>
    /\ wvm.result = Num(42)

C27_LocalGet ==
    (wvm.last.kind = "instruction" /\ wvm.last.opcode = 32)
    => LET before == wvm.last.before
           after == wvm.last.after
           idx == read_leb128_u32(wvm.bytecode, before.pc + 1).result
       IN /\ after.locals = before.locals
          /\ GtU32(U32Of(Len(before.locals)), idx)
               => /\ wvm.last.ret
                  /\ wvm.phase = "run"
                  /\ after.stack = Append(before.stack, before.locals[idx.lo + 1])
          /\ ~GtU32(U32Of(Len(before.locals)), idx)
               => /\ ~wvm.last.ret
                  /\ wvm.phase = "done"
                  /\ after.stack = before.stack
                  /\ wvm.result = Num(IF before.stack = <<>> THEN 0
                                      ELSE before.stack[Len(before.stack)])

C27_Witness ==
    /\ wvm.last.kind = "instruction"
    /\ wvm.last.opcode = 32
    /\ wvm.bytecode = <<65, 1, 32>>
    /\ wvm.args = <<>>
    /\ wvm.phase = "done"
    /\ wvm.result = Num(1)

\* C28: LOCAL_SET(idx) with idx in range and a non-empty stack pops the top
\* value into locals[idx] and changes no other local; with idx out of range
\* or an empty stack it halts the frame and leaves locals and stack as
\* they were.
C28_LocalSet ==
    (wvm.last.kind = "instruction" /\ wvm.last.opcode = 33)
    => LET before == wvm.last.before
           after == wvm.last.after
           idx == read_leb128_u32(wvm.bytecode, before.pc + 1).result
           valid == GtU32(U32Of(Len(before.locals)), idx) /\ before.stack # <<>>
       IN /\ valid
               => /\ wvm.last.ret
                  /\ wvm.phase = "run"
                  /\ after.locals = [before.locals EXCEPT ![idx.lo + 1] =
                                       before.stack[Len(before.stack)]]
                  /\ after.stack = SubSeq(before.stack, 1, Len(before.stack) - 1)
          /\ ~valid
               => /\ ~wvm.last.ret
                  /\ wvm.phase = "done"
                  /\ after.locals = before.locals
                  /\ after.stack = before.stack

C28_Witness ==
    /\ wvm.last.kind = "instruction"
    /\ wvm.last.opcode = 33
    /\ wvm.last.ret
    /\ wvm.last.before.locals = <<5, 3>>
    /\ wvm.last.after.locals = <<5, 42>>
    /\ wvm.last.after.stack = <<>>

\* C29: RETURN, END and the end of the bytes stop the call: the frame is
\* popped, no later byte is run, and the result is the i32 on top of the
\* operand stack, or zero when the stack is empty.
C29_ReturnEndTerminal ==
    /\ (\/ wvm.last.kind = "end_of_bytes"
        \/ wvm.last.kind = "instruction" /\ wvm.last.opcode \in {11, 15})
       => LET stack == wvm.last.before.stack
          IN /\ wvm.phase = "done"
             /\ wvm.call_stack_ = <<>>
             /\ wvm.last.after.stack = stack
             /\ wvm.result = Num(IF stack = <<>> THEN 0 ELSE stack[Len(stack)])
    /\ wvm.last.kind = "end_of_bytes" => wvm.last.before.pc >= Len(wvm.bytecode)
    /\ wvm.last.kind = "instruction" => wvm.last.before.pc < Len(wvm.bytecode)

C29_Witness ==
    /\ wvm.last.kind = "instruction"
    /\ wvm.last.opcode = 11
    /\ wvm.bytecode = <<65, 1, 11>>
    /\ wvm.phase = "done"
    /\ wvm.result = Num(1)

\* C30: an opcode byte without a case in execute_instruction is a no-op:
\* the cursor advances by one byte, the operand stack and the locals are
\* unchanged, and execution goes on.
C30_UnknownOpcodeIsNop ==
    (/\ wvm.last.kind = "instruction"
     /\ wvm.last.opcode \notin {1, 11, 15, 32, 33, 65, 106, 107, 108, 146, 160})
    => /\ wvm.last.ret
       /\ wvm.phase = "run"
       /\ wvm.last.after = [wvm.last.before EXCEPT !.pc = @ + 1]
       /\ wvm.call_stack_ = <<wvm.last.after>>

C30_Witness ==
    /\ wvm.last.kind = "instruction"
    /\ wvm.last.opcode = 26
    /\ wvm.last.before.stack = <<1>>
    /\ wvm.last.before.locals = <<5, 3>>
    /\ wvm.phase = "run"

\* C36: grow(delta) returns failure whenever the sum of the page count and
\* delta, taken in the integers, exceeds the maximum; a sum of 2^32 or more
\* (carry out of the 32-bit addition) exceeds every maximum.
C36_GrowFailsOnMathematicalSum ==
    memOp.op = "grow" =>
        LET carry == CarryU32(memOp.prev_pages, memOp.delta)
            low   == AddU32(memOp.prev_pages, memOp.delta)
        IN  (carry = 1 \/ (carry = 0 /\ GtU32(low, mem.maximum_pages_)))
                => memOp.ret = FALSE

\* C37: the tier of a function never goes down: no optimize_bytecode or
\* compile_to_machine_code call leaves the tier lower than it found it, so a
\* function at tier 3 stays at tier 3.
C37_TierNeverLowered ==
    [][fn'.optimization_level >= fn.optimization_level]_vars

\* The offset at which the k-th section parse_sections accepts starts
RECURSIVE SectionStart(_, _)
SectionStart(data, k) ==
    IF k = 1 THEN 8 ELSE parse_section(data, SectionStart(data, k - 1)).ptr

\* C35: an input that ends inside a section header (directly after a section
\* id, or on a size byte with the continuation flag) is not accepted as a
\* module containing that section.
C35_TruncatedHeaderRejected ==
    (modOp.op = "compile" /\ modOp.parsed /\ modOp.ret)
    => \A k \in 1..Len(module.sections_) :
          LET data == module.binary_data_
              ptr == SectionStart(data, k)
          IN ~(\/ ptr + 1 >= Len(data)
               \/ /\ read_leb128_u32(data, ptr + 1).ptr = Len(data)
                  /\ data[Len(data)] \div 128 = 1)

\* C32: the frame stack of the module interpreter never holds more than one
\* frame; it holds exactly the frame of the call while execute_function
\* runs, and it is empty before a call and after every return (RETURN, END,
\* end of bytes, failed instruction, empty byte sequence).
C32_OneFrame ==
    /\ Len(wvm.call_stack_) <= 1
    /\ wvm.phase \in {"idle", "done"} => wvm.call_stack_ = <<>>
    /\ wvm.phase = "run" => Len(wvm.call_stack_) = 1
    /\ wvm.last.kind = "begin" => wvm.call_stack_ = <<wvm.last.after>>

\* A call has returned on a failed instruction (neither RETURN nor END) that
\* left values on the operand stack of its frame
C32_Witness ==
    /\ wvm.phase = "done"
    /\ wvm.last.kind = "instruction"
    /\ ~wvm.last.ret
    /\ wvm.last.opcode \notin {Opcode.RETURN, Opcode.END}
    /\ wvm.last.after.stack # <<>>
    /\ wvm.call_stack_ = <<>>

\* C38: what execute returns is what the loop yields from pc 0 and an empty
\* stack on the instructions and the constants of the function alone,
\* whatever the VM ran before and whatever the tier and the optimized flag
\* of the function are; and no step of execute changes the instructions or
\* the constants of the function.
C38_ResultOfInstructionsOnly ==
    /\ [][(vm'.phase = "done" /\ ~vm'.null_call)
            => vm'.result = RunFrom(fn'.instructions, fn'.constants, 0, <<>>)]_vars
    /\ [][vm' # vm => (/\ fn'.instructions = fn.instructions
                       /\ fn'.constants = fn.constants)]_vars

\* A call has returned a number from a function that a promotion had put at
\* tier 3, with registers set up from the arguments
C38_Witness ==
    /\ vm.phase = "done"
    /\ ~vm.null_call
    /\ Len(vm.trace) = MaxInstr
    /\ fn.optimization_level = 3
    /\ jitOp.op = "compile_to_machine_code"
    /\ vm.registers_ # <<>>
    /\ vm.result = Num(45)

\* C31: every call of either interpreter terminates.  execute runs at most
\* instructions.size() instructions, at the program counters 0, 1, 2, ... in
\* turn; execute_function runs at most bytecode.size() instructions, each of
\* which leaves the cursor beyond where it found it and never beyond the end;
\* and a loop that was entered is left: execute returns, execute_function
\* returns or the process is aborted.
C31_InterpretersTerminate ==
    /\ [][/\ Len(vm'.trace) <= Len(fn'.instructions)
          /\ \A i \in 1..Len(vm'.trace) : vm'.trace[i] = i - 1]_vars
    /\ [][/\ wvm'.steps <= Len(wvm'.bytecode)
          /\ wvm'.last.kind = "instruction"
               => /\ wvm'.last.after.pc > wvm'.last.before.pc
                  /\ wvm'.last.after.pc <= Len(wvm'.bytecode)]_vars
    /\ (vm.phase = "loop") ~> (vm.phase = "done")
    /\ (wvm.phase = "run") ~> (wvm.phase \in {"done", "abort"})

\* A call of execute_function has returned at the end of the bytes after as
\* many instructions as there are bytes
C31_Witness ==
    /\ wvm.phase = "done"
    /\ wvm.last.kind = "end_of_bytes"
    /\ wvm.steps = Len(wvm.bytecode)
    /\ wvm.steps = MaxCode

\* C33: instantiate() on an instance whose module is absent or not compiled
\* returns failure and creates neither a memory nor an interpreter (such an
\* instance never has either), and a call of an export on it returns the
\* default value.
C33_NoModuleNoInstance ==
    (~inst.module_ \/ ~module.is_compiled_)
    => /\ inst.memory_ = NullMemory
       /\ inst.vm_ = NullVM
       /\ inst.objects = 0
       /\ ~inst.last.compiled
       /\ inst.last.op = "instantiate" => inst.last.ret = FALSE
       /\ inst.last.op = "call_exported_function"
            => inst.alive /\ inst.last.result = Undefined

\* The module of the instance has failed to compile and instantiate has
\* then returned failure
C33_Witness ==
    /\ inst.module_
    /\ modOp.op = "compile"
    /\ ~modOp.ret
    /\ inst.last.op = "instantiate"
    /\ ~inst.last.ret
    /\ inst.vm_ = NullVM

\* C34: on a compiled module instantiate() returns success; the first call
\* creates a memory of 1 initial and 1024 maximum pages and an interpreter
\* constructed on that memory, every later call leaves the same memory and
\* the same interpreter in place, and the interpreter of an instance always
\* points to the memory the instance holds.
C34_InstantiateIdempotent ==
    /\ inst.vm_.obj # 0 => (inst.memory_.obj # 0 /\ inst.vm_.memory_ = inst.memory_.obj)
    /\ inst.memory_.obj # 0
         => /\ Size(inst.memory_.mem) = U32Of(1)
            /\ inst.memory_.mem.initial_pages_ = U32Of(1)
            /\ inst.memory_.mem.maximum_pages_ = U32Of(1024)
    /\ (inst.last.op = "instantiate" /\ inst.last.compiled)
         => /\ inst.last.ret = TRUE
            /\ inst.memory_.obj # 0
            /\ inst.vm_.obj # 0
            /\ inst.last.memory_.obj # 0 => inst.memory_ = inst.last.memory_
            /\ inst.last.vm_.obj # 0 => inst.vm_ = inst.last.vm_

\* instantiate has returned success on an instance that already had its
\* memory and its interpreter
C34_Witness ==
    /\ inst.last.op = "instantiate"
    /\ inst.last.ret
    /\ inst.last.memory_.obj # 0
    /\ inst.last.vm_.obj # 0
    /\ inst.vm_ = inst.last.vm_
    /\ inst.memory_ = inst.last.memory_

====
